---- MODULE Spec2Model ----
(***************************************************************************)
(* State-machine model of the similarity search core:                      *)
(*   - MetadataStore   (railway-deploy/storage/metadata_store.py)          *)
(*   - SearchEngine    (railway-deploy/processors/search_engine.py)        *)
(*   - QueryProcessor  (src/processors/query_processor.py)                 *)
(*   - ResultRanker    (railway-deploy/processors/result_ranker.py)        *)
(* Two MetadataStore instances share one backing file: the one owned by    *)
(* the offline indexer (the writer) and the one owned by the SearchEngine  *)
(* (the reader).  The SearchEngine is shared by the web sessions, each of  *)
(* which runs its calls on its own thread.                                 *)
(* Scores are fixed-point numbers in thousandths (1000 stands for 1.0).    *)
(***************************************************************************)
EXTENDS Integers, Sequences, FiniteSets, TLC

\* ---------------------------------------------------------------- bounds
MaxWrites == 2      \* writes of the backing file (modification times)
MaxTime == 31       \* minutes on the engine's clock
MaxCalls == 2       \* completed or counted search() calls per statistics period
MaxStamp == 2       \* ticks of the indexer's wall clock, and source mtimes
MaxLen == 3         \* length of the result lists handed to the ResultRanker
MaxWebOps == 3      \* calls made on the QueryCache of one web session
MaxWall == 2        \* minutes the wall clock runs past one TTL of the QueryCache

\* ------------------------------------------------------------- constants
CacheTTL == 30                      \* SearchEngine._cache_ttl, minutes
DefaultSimilarityThreshold == 100   \* AppConfig.similarity_threshold = 0.1
DefaultMaxResults == 5              \* AppConfig.max_results
DefaultDiversityThreshold == 800    \* apply_diversity_filter(diversity_threshold=0.8)
QueryCacheMaxSize == 100            \* QueryCache(max_size=100)
QueryCacheTTL == 30                 \* QueryCache(ttl_minutes=30)

IdOrder == <<"a", "b">>            \* iteration order of the dicts
PathOrder == IdOrder \o <<"c">>    \* the same for dicts that hold a third path
Ids == {IdOrder[i] : i \in 1..Len(IdOrder)}
Threads == {"t1", "t2"}
Stores == {"indexer", "engine"}
\* the vector the Embedding Provider gives the image at path p
ImageEmbedding(p) == IF p = "a" THEN <<1, 0>> ELSE <<-1, 0>>

\* Optional[x]: None is the empty sequence, a value is a one-element sequence
None == <<>>
Some(x) == <<x>>
IsNone(o) == o = <<>>
Val(o) == o[1]

\* ------------------------------------------------------------ dict helpers
EmptyDict == [k \in {} |-> None]
DictPut(d, k, v) == [x \in (DOMAIN d) \cup {k} |-> IF x = k THEN v ELSE d[x]]
DictDel(d, k) == [x \in (DOMAIN d) \ {k} |-> d[x]]

\* ------------------------------------------------------------- ImageMetadata
\* A record as ImageProcessor builds it: file_size is the source's st_size
\* and processed_date the wall clock of the indexer at that moment.
\* ImageMetadata(p) is the record of source p made at time 1 from a source
\* of size 1.
ImageMetadata(p) ==
    [path |-> p, embedding |-> ImageEmbedding(p), description |-> "building", features |-> <<"glass">>,
     file_size |-> Some(1), processed_date |-> 1]

\* Vector components are numbers that float32 holds exactly, except Wide: a
\* float64 value with no float32 equal, whose nearest float32 is Narrow.
Wide == 100001
Narrow == 100002
Float32(x) == IF x = Wide THEN Narrow ELSE x
\* np.array(list, dtype=np.float32)
AsFloat32(v) == [i \in 1..Len(v) |-> Float32(v[i])]

\* ImageMetadata.to_dict: the JSON item; the ndarray becomes a list and the
\* datetime its ISO string
ToDict(m) ==
    [path |-> m.path, embedding |-> [list |-> m.embedding],
     description |-> m.description, features |-> m.features,
     file_size |-> m.file_size, processed_date |-> [iso |-> m.processed_date]]

\* ImageMetadata.from_dict followed by __post_init__: has the item the
\* required fields and do they pass validation
ItemLoadable(item) ==
    /\ {"path", "embedding", "description", "features"} \subseteq DOMAIN item
    /\ item.path /= ""
    /\ Len(item.embedding.list) > 0
    /\ item.description /= ""

FromDict_NoFeatures(item) ==
    [path |-> item.path, embedding |-> AsFloat32(item.embedding.list),
     description |-> item.description, features |-> <<>>,
     file_size |-> item.file_size, processed_date |-> item.processed_date.iso]
FromDict(item) ==
    [path |-> item.path, embedding |-> AsFloat32(item.embedding.list),
     description |-> item.description, features |-> item.features,
     file_size |-> item.file_size, processed_date |-> item.processed_date.iso]

\* ------------------------------------------------------------------- files
\* A file is absent, or has data and a modification time.  The data of a
\* store file is the parsed JSON document, or a marker for a file that
\* json.load rejects ("badjson") or that lacks the 'images' key ("noimages").
Absent == [exists |-> FALSE]
File(d, m) == [exists |-> TRUE, data |-> d, mtime |-> m]
JsonDoc(md) ==
    [kind |-> "json", version |-> "1.0", total_images |-> Cardinality(DOMAIN md),
     images |-> {ToDict(md[p]) : p \in DOMAIN md}]
BadJson == [kind |-> "badjson"]
NoImagesKey == [kind |-> "noimages"]
PartialJson == [kind |-> "partial"]

VARIABLES
    liveFile,        \* image_metadata.json
    backupFile,      \* image_metadata.json.backup
    tmpFile,         \* image_metadata.json.tmp
    mclock,          \* next modification time the file system hands out
    imageFiles,      \* the image files that exist on disk
    storeCache,      \* MetadataStore._metadata_cache, per instance
    cacheLoaded,     \* MetadataStore._cache_loaded, per instance
    lastModified,    \* MetadataStore._last_modified, per instance
    wpc,             \* position of the indexer inside its store operation
    wresult,         \* how the indexer's last store operation ended
    savePrev,        \* history: the live file when the running save began
    readerView       \* history: what the last load_all_metadata of the engine's store saw and returned

storeVars == <<liveFile, backupFile, tmpFile, mclock, storeCache, cacheLoaded,
               lastModified, wpc, wresult, savePrev, readerView>>

VARIABLES
    embeddingCache,  \* SearchEngine._embedding_cache: path -> vector
    metadataCache,   \* SearchEngine._metadata_cache: path -> ImageMetadata
    cacheTimestamp,  \* SearchEngine._cache_timestamp (Optional)
    now,             \* the wall clock, in minutes
    searchCount,     \* SearchEngine._search_count
    cacheHits,       \* SearchEngine._cache_hits
    cacheMisses,     \* SearchEngine._cache_misses
    pc,              \* per thread: position inside the running engine call
    local,           \* per thread: the local variables of the running call
    ret,             \* what the search() that finished last returned, to which thread,
                     \* and (history) its input's class and whether it called the provider
    calls,           \* history: search() calls begun since the last reset_statistics
    hist             \* history, per thread: what the running search did so far

engineVars == <<embeddingCache, metadataCache, cacheTimestamp, now, searchCount,
                cacheHits, cacheMisses, pc, local, ret, calls, hist>>
VARIABLES
    simQuery,        \* a query vector handed to the QueryProcessor
    simCandidates,   \* the candidate map handed with it: path -> vector
    simVectorized,   \* what calculate_similarities_vectorized did with them
    simSequential    \* what calculate_similarities did with them

simVars == <<simQuery, simCandidates, simVectorized, simSequential>>

VARIABLES
    rankInput,       \* the arguments handed to a function of the ResultRanker
    rankOutput       \* what the function returned for them

rankVars == <<rankInput, rankOutput>>

VARIABLES
    tailInput,       \* the snapshot and the arguments one search() scores and ranks
    tailOutput       \* what search() returned for them

tailVars == <<tailInput, tailOutput>>

VARIABLES
    queryCache,      \* st.session_state.query_cache: the entries in insertion order
    cacheStats,      \* st.session_state.cache_stats
    cacheConfig,     \* max_size and ttl of the session's QueryCache objects
    wallClock,       \* datetime.now(), naive local time in minutes
    webCall          \* history: the last call on the web layer and what it did

webVars == <<queryCache, cacheStats, cacheConfig, wallClock, webCall>>

\* the inputs and outputs of the pure paths tried on their own
labVars == <<simVars, rankVars, tailVars, webVars>>

VARIABLES
    modelLoaded,     \* ModelManager.model is not None
    status           \* the dict validate_search_readiness builds and returns

VARIABLES
    imageStat,       \* per source image: its st_size and st_mtime
    srcClock,        \* the wall clock read by the indexer (datetime.now())
    seen,            \* history, per path: the record last made of it and the source's stat then
    opResult,        \* what the indexer's last store operation was given and returned
    preRestoreFile   \* the .json.pre_restore file

indexVars == <<imageStat, srcClock, seen, opResult, preRestoreFile>>

\* everything outside the store and the engine's caches and counters
envVars == <<imageFiles, labVars, modelLoaded, status, indexVars>>
vars == <<storeVars, envVars, engineVars>>

\* ------------------------------------------------- _load_metadata_from_file
\* Result of MetadataStore._load_metadata_from_file on file f:
\* [ok |-> TRUE, dict |-> ...] or [ok |-> FALSE] when it raises ValueError.
LoadMetadataFromFile(f) ==
    IF ~f.exists THEN [ok |-> TRUE, dict |-> EmptyDict]
    ELSE IF f.data.kind /= "json" THEN [ok |-> FALSE]
    ELSE LET good == {i \in f.data.images : ItemLoadable(i)}
         IN [ok |-> TRUE,
             dict |-> [p \in {i.path : i \in good} |->
                          FromDict(CHOOSE i \in good : i.path = p)]]

\* MetadataStore._refresh_cache_if_needed for instance s on live file f:
\* the new values of (_metadata_cache, _cache_loaded, _last_modified).
RefreshCacheIfNeeded(s, f) ==
    LET keep == [cache |-> storeCache[s], loaded |-> cacheLoaded[s],
                 modified |-> lastModified[s]]
    IN IF ~f.exists
       THEN IF cacheLoaded[s]
            THEN [keep EXCEPT !.cache = EmptyDict, !.loaded = FALSE]
            ELSE keep
       ELSE IF ~cacheLoaded[s] \/ lastModified[s] /= Some(f.mtime)
            THEN LET r == LoadMetadataFromFile(f)
                 IN IF r.ok
                    THEN [cache |-> r.dict, loaded |-> TRUE, modified |-> Some(f.mtime)]
                    ELSE keep    \* except Exception: logger.warning
            ELSE keep

\* ------------------------------------------------------- load_all_metadata
\* MetadataStore.load_all_metadata on instance s: refresh, then return a copy
\* of the cache.  The call never raises: _refresh_cache_if_needed swallows
\* every exception of the load.  The returned map is storeCache'[s].
LoadAllMetadata(s) ==
    LET r == RefreshCacheIfNeeded(s, liveFile)
    IN /\ storeCache' = [storeCache EXCEPT ![s] = r.cache]
       /\ cacheLoaded' = [cacheLoaded EXCEPT ![s] = r.loaded]
       /\ lastModified' = [lastModified EXCEPT ![s] = r.modified]

\* A reader process calls load_all_metadata on the engine's store instance;
\* readerView records the file it met, the map it got and that nothing was raised.
ReaderLoad ==
    /\ LoadAllMetadata("engine")
    /\ readerView' = [called |-> TRUE, file |-> liveFile,
                      result |-> storeCache'["engine"], raised |-> FALSE,
                      inSave |-> wpc /= "idle", old |-> savePrev,
                      new |-> storeCache["indexer"]]
    /\ UNCHANGED <<liveFile, backupFile, tmpFile, mclock, wpc, wresult, savePrev>>
    /\ UNCHANGED <<envVars, engineVars>>

\* ------------------------------------------------ indexer: store operations
\* save_metadata(metadata): refresh, put the record in the cache, then enter
\* _save_metadata_to_file with the cache.
SaveMetadata(p) ==
    /\ wpc = "idle"
    /\ mclock < MaxWrites
    /\ LET r == RefreshCacheIfNeeded("indexer", liveFile)
       IN /\ storeCache' = [storeCache EXCEPT
                               !["indexer"] = DictPut(r.cache, p, ImageMetadata(p))]
          /\ cacheLoaded' = [cacheLoaded EXCEPT !["indexer"] = r.loaded]
          /\ lastModified' = [lastModified EXCEPT !["indexer"] = r.modified]
    /\ wpc' = "backup"
    /\ wresult' = "running"
    /\ savePrev' = liveFile
    /\ UNCHANGED <<liveFile, backupFile, tmpFile, mclock, readerView>>
    /\ UNCHANGED <<envVars, engineVars>>

\* remove_metadata(image_path): refresh; delete and save only when present.
RemoveMetadata(p) ==
    /\ wpc = "idle"
    /\ mclock < MaxWrites
    /\ LET r == RefreshCacheIfNeeded("indexer", liveFile)
       IN /\ storeCache' = [storeCache EXCEPT
                               !["indexer"] = IF p \in DOMAIN r.cache
                                              THEN DictDel(r.cache, p) ELSE r.cache]
          /\ cacheLoaded' = [cacheLoaded EXCEPT !["indexer"] = r.loaded]
          /\ lastModified' = [lastModified EXCEPT !["indexer"] = r.modified]
          /\ IF p \in DOMAIN r.cache
             THEN wpc' = "backup" /\ wresult' = "running" /\ savePrev' = liveFile
             ELSE wpc' = "idle" /\ wresult' = "ok" /\ UNCHANGED savePrev
    /\ UNCHANGED <<liveFile, backupFile, tmpFile, mclock, readerView>>
    /\ UNCHANGED <<envVars, engineVars>>

\* _save_metadata_to_file, lines 130-133: the live file is renamed to the
\* .json.backup name (or the rename raises).
SaveBackup ==
    /\ wpc = "backup"
    /\ IF liveFile.exists
       THEN \/ /\ backupFile' = liveFile
               /\ liveFile' = Absent
               /\ wpc' = "write"
            \/ /\ wpc' = "except"
               /\ UNCHANGED <<liveFile, backupFile>>
       ELSE wpc' = "write" /\ UNCHANGED <<liveFile, backupFile>>
    /\ UNCHANGED <<tmpFile, mclock, storeCache, cacheLoaded, lastModified,
                   wresult, savePrev, readerView>>
    /\ UNCHANGED <<envVars, engineVars>>

\* lines 136-147: build the document and write it to the .json.tmp file.
\* how = "ok": written in full; "serialise": to_dict or open raised before
\* anything was written; "partial": json.dump raised after the file was created.
SaveWrite(how) ==
    /\ wpc = "write"
    /\ CASE how = "ok" ->
              /\ tmpFile' = File(JsonDoc(storeCache["indexer"]), mclock)
              /\ mclock' = mclock + 1
              /\ wpc' = "rename"
         [] how = "serialise" ->
              /\ wpc' = "except"
              /\ UNCHANGED <<tmpFile, mclock>>
         [] how = "partial" ->
              /\ tmpFile' = File(PartialJson, mclock)
              /\ mclock' = mclock + 1
              /\ wpc' = "except"
    /\ UNCHANGED <<liveFile, backupFile, storeCache, cacheLoaded, lastModified,
                   wresult, savePrev, readerView>>
    /\ UNCHANGED <<envVars, engineVars>>

\* line 150: temp_file.replace(self.metadata_file), or the rename raises.
SaveRename ==
    /\ wpc = "rename"
    /\ \/ /\ liveFile' = tmpFile
          /\ tmpFile' = Absent
          /\ wpc' = "idle"
          /\ wresult' = "ok"
          /\ savePrev' = Absent
       \/ /\ wpc' = "except"
          /\ UNCHANGED <<liveFile, tmpFile, wresult, savePrev>>
    /\ UNCHANGED <<backupFile, mclock, storeCache, cacheLoaded, lastModified,
                   readerView>>
    /\ UNCHANGED <<envVars, engineVars>>

\* lines 154-160: the except handler unlinks the temporary file and raises.
SaveExcept ==
    /\ wpc = "except"
    /\ tmpFile' = Absent
    /\ wpc' = "idle"
    /\ wresult' = "error"
    /\ savePrev' = Absent
    /\ UNCHANGED <<liveFile, backupFile, mclock, storeCache, cacheLoaded,
                   lastModified, readerView>>
    /\ UNCHANGED <<envVars, engineVars>>

\* The backing file is damaged from outside the program, between store
\* operations: it no longer parses, or parses to a document without 'images'.
CorruptFile(d) ==
    /\ wpc = "idle"
    /\ liveFile.exists
    /\ liveFile.data.kind = "json"
    /\ mclock < MaxWrites
    /\ liveFile' = File(d, mclock)
    /\ mclock' = mclock + 1
    /\ UNCHANGED <<backupFile, tmpFile, storeCache, cacheLoaded, lastModified,
                   wpc, wresult, savePrev, readerView>>
    /\ UNCHANGED <<envVars, engineVars>>

\* --------------------------------------------- indexer: the source images
\* every source image of the model lies under the directory "images"
Directories == {"images", "elsewhere"}
DirOf(p) == "images"
Sizes == {1, 2}
Stat(size, mtime) == [size |-> size, mtime |-> mtime]

\* ImageProcessor: the record built for source p now; float64 = the provider
\* handed back a float64 vector with a component float32 cannot hold
ProcessSingleImage(p, float64) ==
    [ImageMetadata(p) EXCEPT !.embedding = IF float64 THEN <<Wide, 0>> ELSE ImageEmbedding(p),
                             !.file_size = Some(imageStat[p].size),
                             !.processed_date = srcClock]

\* opResult while no operation of the indexer has a result to look at
Seen(stat, record) == [stat |-> stat, record |-> record]
NoOp ==
    [op |-> "none", raised |-> FALSE, ids |-> {}, count |-> 0, dir |-> "",
     batch |-> EmptyDict, prior |-> EmptyDict, clock0 |-> 0,
     backup |-> Absent, file0 |-> Absent, file1 |-> Absent]
\* a store operation starts: the indexer is between operations
Began(op) == [NoOp EXCEPT !.op = op, !.clock0 = mclock, !.file0 = liveFile, !.file1 = liveFile]
BetweenOps == wpc = "idle" /\ opResult.op = "none"

\* save_batch_metadata(metadata_list) with the records of the sources in B
\* (save_metadata is the same code for one record): nothing at all for an
\* empty list; else refresh, put every record into the cache and save once.
SaveBatchMetadata(B, float64) ==
    /\ BetweenOps
    /\ mclock < MaxWrites
    /\ B \subseteq imageFiles
    /\ LET r == RefreshCacheIfNeeded("indexer", liveFile)
           batch == [p \in B |-> ProcessSingleImage(p, float64)]
       IN IF B = {}
          THEN /\ wresult' = "ok"
               /\ opResult' = [Began("batch") EXCEPT !.prior = storeCache["indexer"]]
               /\ UNCHANGED <<storeCache, cacheLoaded, lastModified, wpc, savePrev, seen>>
          ELSE /\ storeCache' = [storeCache EXCEPT !["indexer"] =
                                    [p \in DOMAIN r.cache \cup B |->
                                        IF p \in B THEN batch[p] ELSE r.cache[p]]]
               /\ cacheLoaded' = [cacheLoaded EXCEPT !["indexer"] = r.loaded]
               /\ lastModified' = [lastModified EXCEPT !["indexer"] = r.modified]
               /\ wpc' = "backup"
               /\ wresult' = "running"
               /\ savePrev' = liveFile
               /\ seen' = [p \in Ids |-> IF p \in B THEN Some(Seen(imageStat[p], batch[p]))
                                                     ELSE seen[p]]
               /\ opResult' = [Began("batch") EXCEPT !.batch = batch, !.prior = r.cache]
    /\ UNCHANGED <<liveFile, backupFile, tmpFile, mclock, readerView>>
    /\ UNCHANGED <<imageFiles, labVars, modelLoaded, status, imageStat, srcClock,
                   preRestoreFile, engineVars>>

\* get_images_needing_processing(image_directory), lines 273-337: the image
\* files under the directory that have no record, or are newer than their
\* record's processed_date, or whose size is not the record's file_size.
NeedsProcessing(cache, p) ==
    \/ p \notin DOMAIN cache
    \/ imageStat[p].mtime > cache[p].processed_date
    \/ /\ ~IsNone(cache[p].file_size)
       /\ Val(cache[p].file_size) /= 0
       /\ Val(cache[p].file_size) /= imageStat[p].size
GetImagesNeedingProcessing(dir) ==
    /\ BetweenOps
    /\ LET r == RefreshCacheIfNeeded("indexer", liveFile)
           image_files == {p \in imageFiles : DirOf(p) = dir}
       IN /\ storeCache' = [storeCache EXCEPT !["indexer"] = r.cache]
          /\ cacheLoaded' = [cacheLoaded EXCEPT !["indexer"] = r.loaded]
          /\ lastModified' = [lastModified EXCEPT !["indexer"] = r.modified]
          /\ opResult' = [Began("stale") EXCEPT !.dir = dir, !.prior = r.cache,
                                      !.ids = {p \in image_files : NeedsProcessing(r.cache, p)}]
    /\ UNCHANGED <<liveFile, backupFile, tmpFile, mclock, wpc, wresult, savePrev, readerView>>
    /\ UNCHANGED <<imageFiles, labVars, modelLoaded, status, imageStat, srcClock, seen,
                   preRestoreFile, engineVars>>

\* cleanup_orphaned_metadata(image_directory), lines 397-432: refresh, drop
\* every record whose path does not exist or is not under the directory,
\* save when something was dropped, return how many were dropped.
Orphaned(p, dir) == p \notin imageFiles \/ DirOf(p) /= dir
CleanupOrphanedMetadata(dir) ==
    /\ BetweenOps
    /\ mclock < MaxWrites
    /\ LET r == RefreshCacheIfNeeded("indexer", liveFile)
           orphaned_paths == {p \in DOMAIN r.cache : Orphaned(p, dir)}
       IN /\ storeCache' = [storeCache EXCEPT !["indexer"] =
                               [p \in DOMAIN r.cache \ orphaned_paths |-> r.cache[p]]]
          /\ cacheLoaded' = [cacheLoaded EXCEPT !["indexer"] = r.loaded]
          /\ lastModified' = [lastModified EXCEPT !["indexer"] = r.modified]
          /\ opResult' = [Began("cleanup") EXCEPT !.dir = dir, !.prior = r.cache,
                                      !.count = Cardinality(orphaned_paths)]
          /\ IF orphaned_paths /= {}
             THEN wpc' = "backup" /\ wresult' = "running" /\ savePrev' = liveFile
             ELSE wpc' = "idle" /\ wresult' = "ok" /\ UNCHANGED savePrev
    /\ UNCHANGED <<liveFile, backupFile, tmpFile, mclock, readerView>>
    /\ UNCHANGED <<imageFiles, labVars, modelLoaded, status, imageStat, srcClock, seen,
                   preRestoreFile, engineVars>>

\* restore_from_backup(backup_path) on backup file b, lines 470-511.
\* how = "ok": every file operation succeeds; "move": renaming the live file
\* to .json.pre_restore raises; "copy": shutil.copy2 raises and leaves no
\* live file.  Every exception leaves as ValueError("Restore failed").
BackupAccepted(b) == b.exists /\ b.data.kind = "json"
RestoreFromBackup(b, how) ==
    /\ BetweenOps
    /\ LET done(raised, live) ==
               opResult' = [Began("restore") EXCEPT !.raised = raised,
                                        !.backup = b, !.file1 = live]
       IN IF ~BackupAccepted(b) \/ (how = "move" /\ liveFile.exists)
          THEN /\ done(TRUE, liveFile)
               /\ UNCHANGED <<liveFile, preRestoreFile, storeCache, cacheLoaded>>
          ELSE /\ preRestoreFile' = IF liveFile.exists THEN liveFile ELSE preRestoreFile
               /\ IF how = "copy"
                  THEN /\ liveFile' = Absent
                       /\ done(TRUE, Absent)
                       /\ UNCHANGED <<storeCache, cacheLoaded>>
                  ELSE /\ liveFile' = b
                       /\ done(FALSE, b)
                       /\ storeCache' = [storeCache EXCEPT !["indexer"] = EmptyDict]
                       /\ cacheLoaded' = [cacheLoaded EXCEPT !["indexer"] = FALSE]
    /\ UNCHANGED <<backupFile, tmpFile, mclock, lastModified, wpc, wresult, savePrev,
                   readerView>>
    /\ UNCHANGED <<imageFiles, labVars, modelLoaded, status, imageStat, srcClock, seen,
                   engineVars>>

\* the caller has looked at what the operation returned and goes on
Return ==
    /\ wpc = "idle"
    /\ opResult.op /= "none"
    /\ opResult' = NoOp
    /\ UNCHANGED <<storeVars, imageFiles, labVars, modelLoaded, status, imageStat, srcClock,
                   seen, preRestoreFile, engineVars>>

\* The sources change from outside the program, between store operations: a
\* file gets another size or another modification time (a touch to any
\* time up to now), is deleted, and the wall clock moves on.
ModifySource(p, size, mtime) ==
    /\ BetweenOps
    /\ p \in imageFiles
    /\ mtime <= srcClock
    /\ Stat(size, mtime) /= imageStat[p]
    /\ imageStat' = [imageStat EXCEPT ![p] = Stat(size, mtime)]
    /\ UNCHANGED <<storeVars, imageFiles, labVars, modelLoaded, status, srcClock, seen,
                   opResult, preRestoreFile, engineVars>>
RemoveSource(p) ==
    /\ BetweenOps
    /\ p \in imageFiles
    /\ imageFiles' = imageFiles \ {p}
    /\ UNCHANGED <<storeVars, labVars, modelLoaded, status, indexVars, engineVars>>
AdvanceClock ==
    /\ BetweenOps
    /\ srcClock < MaxStamp
    /\ srcClock' = srcClock + 1
    /\ UNCHANGED <<storeVars, imageFiles, labVars, modelLoaded, status, imageStat, seen,
                   opResult, preRestoreFile, engineVars>>

\* ------------------------------------------------------------ QueryProcessor
\* str.strip() on a text given as a sequence of characters
RECURSIVE LStrip(_)
LStrip(s) == IF s /= <<>> /\ Head(s) = " " THEN LStrip(Tail(s)) ELSE s
RECURSIVE RStrip(_)
RStrip(s) == IF s /= <<>> /\ s[Len(s)] = " " THEN RStrip(SubSeq(s, 1, Len(s) - 1)) ELSE s
Strip(s) == RStrip(LStrip(s))

\* SearchEngine.search lines 90-97: the parameter checks made by search itself
SearchParamsOk(text, max_results, similarity_threshold) ==
    /\ text /= <<>> /\ Strip(text) /= <<>>
    /\ IsNone(max_results) \/ Val(max_results) > 0
    /\ IsNone(similarity_threshold)
         \/ (0 <= Val(similarity_threshold) /\ Val(similarity_threshold) <= 1000)

\* QueryProcessor._validate_and_normalize_query: does the text pass
\* variant without the minimum-length check of line 102
ValidateAndNormalizeOk_NoMinLength(text) ==
    /\ text /= <<>>
    /\ Strip(text) /= <<>>

ValidateAndNormalizeOk(text) ==
    /\ text /= <<>>
    /\ Strip(text) /= <<>>
    /\ Len(Strip(text)) >= 2

\* variant that goes on without a query vector when the provider fails
ProcessQueryOk_IgnoresProvider(text, provider) == ValidateAndNormalizeOk(text)

\* QueryProcessor.process_query: validation, then the Embedding Provider;
\* any failure of either is raised as ValueError (lines 82-84)
ProcessQueryOk(text, provider) == ValidateAndNormalizeOk(text) /\ provider = "ok"

\* ModelManager.generate_text_embedding: the unit vector of a query text
GenerateTextEmbedding(text) == <<1, 0>>

\* vector arithmetic; Norm is exact for the vectors of the model, whose
\* squared length is a perfect square
RECURSIVE Dot(_, _)
Dot(u, v) == IF u = <<>> \/ v = <<>> THEN 0 ELSE u[1] * v[1] + Dot(Tail(u), Tail(v))
Norm(v) == CHOOSE r \in 0..(Dot(v, v) + 1) : r * r <= Dot(v, v) /\ Dot(v, v) < (r + 1) * (r + 1)
Clip(x, lo, hi) == IF x < lo THEN lo ELSE IF x > hi THEN hi ELSE x

\* A component that is not a finite number (NaN): np.isfinite is False for it
\* and every arithmetic result it takes part in is NaN again.
NaN == 99999
IsFinite(v) == \A i \in 1..Len(v) : v[i] /= NaN

\* the cosine of two finite vectors of one length and non-zero norm, clipped
Cosine(u, v) == Clip((1000 * Dot(u, v)) \div (Norm(u) * Norm(v)), -1000, 1000)

\* both paths raise ValueError for an empty query vector (lines 141-142, 189-190)
SimilarityRaises(q) == Len(q) = 0

\* _calculate_cosine_similarity(query / |query|, e) for e of the query's
\* shape: the divisions by the norms are not guarded, so a zero or non-finite
\* vector on either side makes the score NaN (0/0, NaN * x), which np.clip keeps.
CalculateCosineSimilarity(q, e) ==
    IF ~IsFinite(q) \/ ~IsFinite(e) THEN NaN
    ELSE IF Norm(q) = 0 \/ Norm(e) = 0 THEN NaN
    ELSE Cosine(q, e)

\* calculate_similarities for a non-empty query: a candidate of another shape
\* raises inside the loop and is skipped (lines 156-162)
CalculateSimilarities(q, image_embeddings) ==
    [p \in {x \in DOMAIN image_embeddings : Len(image_embeddings[x]) = Len(q)} |->
        CalculateCosineSimilarity(q, image_embeddings[p])]

\* variant whose filter does not compare the shapes
CalculateSimilaritiesVectorized_NoShapeCheck(q, image_embeddings) ==
    LET valid == {p \in DOMAIN image_embeddings :
                     /\ Len(image_embeddings[p]) > 0
                     /\ IsFinite(image_embeddings[p])}
    IN IF valid = {} THEN EmptyDict
       ELSE IF ~IsFinite(q) THEN CalculateSimilarities(q, image_embeddings)
       ELSE IF Norm(q) = 0 THEN CalculateSimilarities(q, image_embeddings)
       ELSE [p \in valid |->
                IF Norm(image_embeddings[p]) = 0 THEN 0 ELSE Cosine(image_embeddings[p], q)]

\* calculate_similarities_vectorized for a non-empty query: candidates that
\* are empty, non-finite or of another shape are left out (lines 198-213);
\* without a valid candidate the result is empty (215-217); a non-finite or
\* zero-norm query raises inside the try and the handler falls back to
\* calculate_similarities on the whole input (230-241, 285-290); a zero
\* candidate norm is replaced by 1 (248-252); the scores are clipped.
CalculateSimilaritiesVectorized(q, image_embeddings) ==
    LET valid == {p \in DOMAIN image_embeddings :
                     /\ Len(image_embeddings[p]) > 0
                     /\ IsFinite(image_embeddings[p])
                     /\ Len(image_embeddings[p]) = Len(q)}
    IN IF valid = {} THEN EmptyDict
       ELSE IF ~IsFinite(q) THEN CalculateSimilarities(q, image_embeddings)
       ELSE IF Norm(q) = 0 THEN CalculateSimilarities(q, image_embeddings)
       ELSE [p \in valid |->
                IF Norm(image_embeddings[p]) = 0 THEN 0 ELSE Cosine(image_embeddings[p], q)]

\* ------------------------------------------------- the scoring paths alone
NotScored == [done |-> FALSE, ok |-> FALSE, map |-> EmptyDict]
Scored(q, map) == [done |-> TRUE, ok |-> ~SimilarityRaises(q),
                   map |-> IF SimilarityRaises(q) THEN EmptyDict ELSE map]

ScoreVectorized ==
    /\ ~simVectorized.done
    /\ simVectorized' = Scored(simQuery, CalculateSimilaritiesVectorized(simQuery, simCandidates))
    /\ UNCHANGED <<simQuery, simCandidates, simSequential>>
    /\ UNCHANGED <<storeVars, imageFiles, rankVars, tailVars, webVars, modelLoaded, status, indexVars, engineVars>>

ScoreSequential ==
    /\ ~simSequential.done
    /\ simSequential' = Scored(simQuery, CalculateSimilarities(simQuery, simCandidates))
    /\ UNCHANGED <<simQuery, simCandidates, simVectorized>>
    /\ UNCHANGED <<storeVars, imageFiles, rankVars, tailVars, webVars, modelLoaded, status, indexVars, engineVars>>

\* -------------------------------------------------------------- ResultRanker
\* _calculate_confidence_score: ((s + 1) / 2) ^ 2 clipped to [0, 1]
\* (np.clip hands a NaN through)
CalculateConfidenceScore(s) ==
    IF s = NaN THEN NaN
    ELSE Clip((((s + 1000) \div 2) * ((s + 1000) \div 2)) \div 1000, 0, 1000)

\* SearchResult.__post_init__: does the constructor accept the fields
SearchResultOk(r) ==
    /\ r.image_path /= ""
    /\ 0 <= r.confidence_score /\ r.confidence_score <= 1000
    /\ r.description /= ""

\* create_search_results: join the scores with the metadata map, in dict order
RECURSIVE CreateFrom(_, _, _)
CreateFrom(order, similarities, metadata_dict) ==
    IF order = <<>> THEN <<>>
    ELSE LET p == Head(order)
             rest == CreateFrom(Tail(order), similarities, metadata_dict)
         IN IF p \in DOMAIN similarities /\ p \in DOMAIN metadata_dict
            THEN LET r == [image_path |-> p,
                           confidence_score |-> CalculateConfidenceScore(similarities[p]),
                           description |-> metadata_dict[p].description,
                           similarity_score |-> similarities[p],
                           features |-> metadata_dict[p].features]
                 IN IF SearchResultOk(r) THEN <<r>> \o rest ELSE rest
            ELSE rest

CreateSearchResults(similarities, metadata_dict) ==
    IF DOMAIN similarities = {} \/ DOMAIN metadata_dict = {} THEN <<>>
    ELSE CreateFrom(PathOrder, similarities, metadata_dict)

\* filter_by_threshold(results, threshold, 'similarity')
FilterByThreshold(results, threshold) ==
    SelectSeq(results, LAMBDA r : r.similarity_score >= threshold)

\* sort key of a ranking strategy; the hybrid key 0.7*c + 0.3*(s+1)/2 is
\* scaled by 20 to stay in the integers
RankKey_UnknownKeepsOrder(r, strategy) ==
    CASE strategy = "confidence" -> r.confidence_score
      [] strategy = "similarity" -> r.similarity_score
      [] strategy = "hybrid" -> 14 * r.confidence_score + 3 * (r.similarity_score + 1000)
      [] OTHER -> 0                      \* every key equal: the input order stays
RankKey(r, strategy) ==
    CASE strategy = "confidence" -> r.confidence_score
      [] strategy = "similarity" -> r.similarity_score
      [] strategy = "hybrid" -> 14 * r.confidence_score + 3 * (r.similarity_score + 1000)
      [] OTHER -> r.confidence_score     \* the except branch of rank_results

\* sorted(results, key=..., reverse=True): stable, descending
InsertByKey_Unstable(acc, x, strategy) ==
    LET n == Cardinality({i \in 1..Len(acc) : RankKey(acc[i], strategy) > RankKey(x, strategy)})
    IN SubSeq(acc, 1, n) \o <<x>> \o SubSeq(acc, n + 1, Len(acc))
InsertByKey(acc, x, strategy) ==
    LET n == Cardinality({i \in 1..Len(acc) : RankKey(acc[i], strategy) >= RankKey(x, strategy)})
    IN SubSeq(acc, 1, n) \o <<x>> \o SubSeq(acc, n + 1, Len(acc))
RECURSIVE SortByKey(_, _)
SortByKey(rs, strategy) ==
    IF rs = <<>> THEN <<>>
    ELSE InsertByKey(SortByKey(SubSeq(rs, 1, Len(rs) - 1), strategy), rs[Len(rs)], strategy)

\* rank_results(results, max_results, ranking_strategy)
RankResults(results, max_results, strategy) ==
    LET limit == IF IsNone(max_results) THEN DefaultMaxResults ELSE Val(max_results)
        sorted == SortByKey(results, strategy)
    IN IF results = <<>> THEN <<>>
       ELSE IF limit > 0 /\ limit < Len(sorted) THEN SubSeq(sorted, 1, limit) ELSE sorted

\* descriptions that are empty after str.strip()
BlankDescriptions == {"", " "}
\* variant without the description check
ValidateSearchResult_AnyDescription(r, images) ==
    /\ r.image_path \in images
    /\ 0 <= r.confidence_score /\ r.confidence_score <= 1000
    /\ -1000 <= r.similarity_score /\ r.similarity_score <= 1000
\* SearchEngine._validate_search_result
ValidateSearchResult(r, images) ==
    /\ r.image_path \in images
    /\ 0 <= r.confidence_score /\ r.confidence_score <= 1000
    /\ -1000 <= r.similarity_score /\ r.similarity_score <= 1000
    /\ r.description \notin BlankDescriptions

\* str.lower().strip() on a feature: the vocabulary of the model has two
\* spellings that differ from their normal form
NormalizeFeature(f) ==
    CASE f = "Glass " -> "glass"
      [] f = " STEEL" -> "steel"
      [] OTHER -> f

\* _calculate_feature_similarity(r1, r2): the Jaccard similarity of the
\* normalised feature sets as the fraction num / den; 0 when a list is empty
CalculateFeatureSimilarity(r1, r2) ==
    LET features1 == {NormalizeFeature(r1.features[i]) : i \in 1..Len(r1.features)}
        features2 == {NormalizeFeature(r2.features[i]) : i \in 1..Len(r2.features)}
    IN IF features1 = {} \/ features2 = {}
       THEN [num |-> 0, den |-> 1]
       ELSE [num |-> Cardinality(features1 \cap features2),
             den |-> Cardinality(features1 \cup features2)]
\* similarity > diversity_threshold, the threshold in thousandths
FeatureSimilarityExceeds(r1, r2, diversity_threshold) ==
    1000 * CalculateFeatureSimilarity(r1, r2).num >
        diversity_threshold * CalculateFeatureSimilarity(r1, r2).den

\* apply_diversity_filter(results, diversity_threshold): greedy, keeps the
\* first item, then every candidate that exceeds the threshold with no item
\* kept so far
RECURSIVE DiversityFrom_LastKeptOnly(_, _, _)
DiversityFrom_LastKeptOnly(kept, rest, t) ==
    IF rest = <<>> THEN kept
    ELSE IF FeatureSimilarityExceeds(Head(rest), kept[Len(kept)], t)
         THEN DiversityFrom_LastKeptOnly(kept, Tail(rest), t)
         ELSE DiversityFrom_LastKeptOnly(Append(kept, Head(rest)), Tail(rest), t)
RECURSIVE DiversityFrom(_, _, _)
DiversityFrom(kept, rest, t) ==
    IF rest = <<>> THEN kept
    ELSE IF \E i \in 1..Len(kept) : FeatureSimilarityExceeds(Head(rest), kept[i], t)
         THEN DiversityFrom(kept, Tail(rest), t)
         ELSE DiversityFrom(Append(kept, Head(rest)), Tail(rest), t)
ApplyDiversityFilter(results, diversity_threshold) ==
    IF Len(results) <= 1 THEN results
    ELSE DiversityFrom(<<results[1]>>, Tail(results), diversity_threshold)

\* a feature that is no str (a JSON number in the store file): f.lower()
\* raises AttributeError for it
NotAString == "#7"
\* does _calculate_feature_similarity(r1, r2) raise: both lists are
\* non-empty and one of them holds a feature that is no str
FeatureSimilarityRaises(r1, r2) ==
    /\ r1.features /= <<>>
    /\ r2.features /= <<>>
    /\ \E r \in {r1, r2} : \E i \in 1..Len(r.features) : r.features[i] = NotAString
\* does the loop of apply_diversity_filter raise: a candidate is compared
\* with the kept items in order until one exceeds the threshold
RECURSIVE DiversityRaisesFrom(_, _, _)
DiversityRaisesFrom(kept, rest, t) ==
    IF rest = <<>> THEN FALSE
    ELSE LET c == Head(rest)
             stops == {i \in 1..Len(kept) :
                          \/ FeatureSimilarityRaises(c, kept[i])
                          \/ FeatureSimilarityExceeds(c, kept[i], t)}
             first == CHOOSE i \in stops : \A j \in stops : i <= j
         IN IF stops = {} THEN DiversityRaisesFrom(Append(kept, c), Tail(rest), t)
            ELSE IF FeatureSimilarityRaises(c, kept[first]) THEN TRUE
            ELSE DiversityRaisesFrom(kept, Tail(rest), t)
ApplyDiversityFilterRaises(results, diversity_threshold) ==
    /\ Len(results) > 1
    /\ DiversityRaisesFrom(<<results[1]>>, Tail(results), diversity_threshold)

\* ------------------------------------------ ResultRanker functions alone
\* one call of apply_diversity_filter, rank_results or
\* _calculate_confidence_score on the arguments in rankInput
NoRankInput == [op |-> "none"]
NotRanked == [done |-> FALSE]
Ranked(value) == [done |-> TRUE, value |-> value]
RunDiversityFilter ==
    /\ rankInput.op = "diversity"
    /\ ~rankOutput.done
    /\ rankOutput' = Ranked(ApplyDiversityFilter(rankInput.results, rankInput.t))
    /\ UNCHANGED <<storeVars, imageFiles, simVars, rankInput, tailVars, webVars, modelLoaded, status,
                   indexVars, engineVars>>
RunRankResults ==
    /\ rankInput.op = "rank"
    /\ ~rankOutput.done
    /\ rankOutput' = Ranked(RankResults(rankInput.results, rankInput.limit, rankInput.strategy))
    /\ UNCHANGED <<storeVars, imageFiles, simVars, rankInput, tailVars, webVars, modelLoaded, status,
                   indexVars, engineVars>>
RunConfidenceScore ==
    /\ rankInput.op = "confidence"
    /\ ~rankOutput.done
    /\ rankOutput' = Ranked([c1 |-> CalculateConfidenceScore(rankInput.s1),
                             c2 |-> CalculateConfidenceScore(rankInput.s2)])
    /\ UNCHANGED <<storeVars, imageFiles, simVars, rankInput, tailVars, webVars, modelLoaded, status,
                   indexVars, engineVars>>

\* SearchEngine.search lines 115-186, from the embeddings taken out of the
\* cache to the return: [outcome, results, results_count, counted], where
\* counted says whether the path runs self._search_count += 1.
\* variant in which an empty embedding snapshot is an error instead of the
\* early return of lines 115-119
SearchTail_RaisesOnEmpty(q, image_embeddings, metadata_cache, max_results, similarity_threshold, strategy, diversity, images) ==
    IF DOMAIN image_embeddings = {}
    THEN [outcome |-> "error", via |-> "raise", results |-> <<>>,
          results_count |-> None, counted |-> TRUE]
    ELSE LET similarities == CalculateSimilaritiesVectorized(q, image_embeddings)
             created == CreateSearchResults(similarities, metadata_cache)
             threshold == IF IsNone(similarity_threshold) THEN DefaultSimilarityThreshold
                          ELSE Val(similarity_threshold)
             ranked == RankResults(FilterByThreshold(created, threshold), max_results, strategy)
             diverse == IF diversity /\ ~ApplyDiversityFilterRaises(ranked, DefaultDiversityThreshold)
                        THEN ApplyDiversityFilter(ranked, DefaultDiversityThreshold)
                        ELSE ranked     \* not requested, or raised and skipped
             validated == SelectSeq(diverse, LAMBDA r : ValidateSearchResult(r, images))
         IN [outcome |-> "ok", via |-> "return", results |-> validated,
             results_count |-> Some(Len(validated)), counted |-> TRUE]

\* variant that applies the diversity filter before ranking
SearchTail_DiversityBeforeRank(q, image_embeddings, metadata_cache, max_results, similarity_threshold, strategy, diversity, images) ==
    IF DOMAIN image_embeddings = {}
    THEN [outcome |-> "ok", via |-> "empty", results |-> <<>>,
          results_count |-> Some(0), counted |-> FALSE]
    ELSE LET similarities == CalculateSimilaritiesVectorized(q, image_embeddings)
             created == CreateSearchResults(similarities, metadata_cache)
             threshold == IF IsNone(similarity_threshold) THEN DefaultSimilarityThreshold
                          ELSE Val(similarity_threshold)
             passing == FilterByThreshold(created, threshold)
             diverse == IF diversity /\ ~ApplyDiversityFilterRaises(passing, DefaultDiversityThreshold)
                        THEN ApplyDiversityFilter(passing, DefaultDiversityThreshold)
                        ELSE passing
             ranked == RankResults(diverse, max_results, strategy)
             validated == SelectSeq(ranked, LAMBDA r : ValidateSearchResult(r, images))
         IN [outcome |-> "ok", via |-> "return", results |-> validated,
             results_count |-> Some(Len(validated)), counted |-> TRUE]

SearchTail(q, image_embeddings, metadata_cache, max_results, similarity_threshold, strategy, diversity, images) ==
    IF DOMAIN image_embeddings = {}
    THEN [outcome |-> "ok", via |-> "empty", results |-> <<>>,
          results_count |-> Some(0), counted |-> FALSE]
    ELSE LET similarities == CalculateSimilaritiesVectorized(q, image_embeddings)
             created == CreateSearchResults(similarities, metadata_cache)
             threshold == IF IsNone(similarity_threshold) THEN DefaultSimilarityThreshold
                          ELSE Val(similarity_threshold)
             ranked == RankResults(FilterByThreshold(created, threshold), max_results, strategy)
             diverse == IF diversity /\ ~ApplyDiversityFilterRaises(ranked, DefaultDiversityThreshold)
                        THEN ApplyDiversityFilter(ranked, DefaultDiversityThreshold)
                        ELSE ranked     \* not requested, or raised and skipped
             validated == SelectSeq(diverse, LAMBDA r : ValidateSearchResult(r, images))
         IN [outcome |-> "ok", via |-> "return", results |-> validated,
             results_count |-> Some(Len(validated)), counted |-> TRUE]

\* search() from line 113 on, alone: one call on the snapshot and the
\* arguments in tailInput
RunSearchTail ==
    /\ tailInput.op = "search"
    /\ ~tailOutput.done
    /\ tailOutput' = Ranked(SearchTail(tailInput.query_embedding,
                                       tailInput.image_embeddings, tailInput.metadata_cache,
                                       tailInput.max_results, tailInput.similarity_threshold,
                                       tailInput.ranking_strategy,
                                       tailInput.apply_diversity_filter, tailInput.images))
    /\ UNCHANGED <<storeVars, imageFiles, simVars, rankVars, tailInput, webVars, modelLoaded, status,
                   indexVars, engineVars>>

\* ------------------------------------------------------- web: QueryCache
\* _generate_cache_key: the text lower-cased and stripped, max_results and
\* the threshold with three decimals (thresholds are thousandths here); the
\* md5 digest of the three is the key
NormalizeQueryText(query_text) ==
    CASE query_text = "Glass " -> "glass"
      [] OTHER -> query_text
GenerateCacheKey(query_text, max_results, similarity_threshold) ==
    <<NormalizeQueryText(query_text), max_results, similarity_threshold>>

CacheEntry(key, results, current_time) == [key |-> key, results |-> results, timestamp |-> current_time]
CachedKeys(cache) == {cache[i].key : i \in 1..Len(cache)}
EntryOf(cache, key) == cache[CHOOSE i \in 1..Len(cache) : cache[i].key = key]
WithoutKey(cache, key) == SelectSeq(cache, LAMBDA e : e.key /= key)
NoStats == [hits |-> 0, misses |-> 0, total_queries |-> 0]

\* _evict_if_needed: when the cache is full, delete the first entry with the
\* smallest timestamp among those stamped before the current time; no entry is deleted
\* when none is stamped before the current time
EvictIfNeeded(cache, max_size, current_time) ==
    LET older == {i \in 1..Len(cache) : cache[i].timestamp < current_time}
        oldest == CHOOSE i \in older : \A j \in older :
                      \/ cache[i].timestamp < cache[j].timestamp
                      \/ cache[i].timestamp = cache[j].timestamp /\ i <= j
    IN IF Len(cache) >= max_size /\ older /= {}
       THEN WithoutKey(cache, cache[oldest].key)
       ELSE cache

\* QueryCache.put: evict if needed, then assign the entry under its key
QueryCachePut(cache, key, results, current_time, max_size) ==
    LET kept == EvictIfNeeded(cache, max_size, current_time)
    IN IF key \in CachedKeys(kept)
       THEN [i \in 1..Len(kept) |->
                IF kept[i].key = key THEN CacheEntry(key, results, current_time) ELSE kept[i]]
       ELSE Append(kept, CacheEntry(key, results, current_time))

\* QueryCache.get: [cache, stats, value] after the call; value is None for
\* a miss; an entry older than the TTL is deleted and counts as a miss
QueryCacheGet(cache, stats, key, current_time, ttl) ==
    LET counted == [stats EXCEPT !.total_queries = @ + 1]
    IN IF key \notin CachedKeys(cache)
       THEN [cache |-> cache, stats |-> [counted EXCEPT !.misses = @ + 1], value |-> None]
       ELSE IF current_time - EntryOf(cache, key).timestamp > ttl
       THEN [cache |-> WithoutKey(cache, key),
             stats |-> [counted EXCEPT !.misses = @ + 1], value |-> None]
       ELSE [cache |-> cache, stats |-> [counted EXCEPT !.hits = @ + 1],
             value |-> Some(EntryOf(cache, key).results)]

NoWebCall ==
    [seq |-> 0, op |-> "none", key |-> <<>>, value |-> None, error |-> FALSE,
     readinessAsked |-> FALSE, searched |-> FALSE, before |-> <<>>, now |-> 0]
WebCall(op, key) ==
    [NoWebCall EXCEPT !.seq = webCall.seq + 1, !.op = op, !.key = key,
                      !.before = queryCache, !.now = wallClock]
WebFrame ==
    UNCHANGED <<storeVars, imageFiles, simVars, rankVars, tailVars, modelLoaded, status,
                indexVars, engineVars>>

\* cache.get(query_text, max_results, similarity_threshold)
Get(query_text, max_results, similarity_threshold) ==
    /\ webCall.seq < MaxWebOps
    /\ LET key == GenerateCacheKey(query_text, max_results, similarity_threshold)
           got == QueryCacheGet(queryCache, cacheStats, key, wallClock, cacheConfig.ttl)
       IN /\ queryCache' = got.cache
          /\ cacheStats' = got.stats
          /\ webCall' = [WebCall("get", key) EXCEPT !.value = got.value]
    /\ UNCHANGED <<cacheConfig, wallClock>>
    /\ WebFrame

\* cache.put(query_text, results, stats, max_results, similarity_threshold)
Put(query_text, results, max_results, similarity_threshold) ==
    /\ webCall.seq < MaxWebOps
    /\ LET key == GenerateCacheKey(query_text, max_results, similarity_threshold)
       IN /\ queryCache' = QueryCachePut(queryCache, key, results, wallClock,
                                         cacheConfig.max_size)
          /\ webCall' = WebCall("put", key)
    /\ UNCHANGED <<cacheStats, cacheConfig, wallClock>>
    /\ WebFrame

\* cache.clear()
Clear ==
    /\ webCall.seq < MaxWebOps
    /\ queryCache' = <<>>
    /\ cacheStats' = NoStats
    /\ webCall' = WebCall("clear", <<>>)
    /\ UNCHANGED <<cacheConfig, wallClock>>
    /\ WebFrame

\* ---------------------------------------------------- web: perform_search
\* what perform_search does after a cache miss, given what the engine
\* answers: [error, readinessAsked, searched, put]; variant that stores the
\* empty result of a failed call
AfterMiss_CachesErrors(ready, outcome, results) ==
    IF ~ready
    THEN [error |-> TRUE, readinessAsked |-> TRUE, searched |-> FALSE, put |-> Some(<<>>)]
    ELSE IF outcome = "raise"
    THEN [error |-> TRUE, readinessAsked |-> TRUE, searched |-> TRUE, put |-> Some(<<>>)]
    ELSE [error |-> FALSE, readinessAsked |-> TRUE, searched |-> TRUE, put |-> Some(results)]
\* lines 160-204 and 206-231: validate_search_readiness, then search, then
\* cache.put; an engine that is not ready or a raising search ends in the
\* except branch, which returns [] and puts nothing
AfterMiss(ready, outcome, results) ==
    IF ~ready
    THEN [error |-> TRUE, readinessAsked |-> TRUE, searched |-> FALSE, put |-> None]
    ELSE IF outcome = "raise"
    THEN [error |-> TRUE, readinessAsked |-> TRUE, searched |-> TRUE, put |-> None]
    ELSE [error |-> FALSE, readinessAsked |-> TRUE, searched |-> TRUE, put |-> Some(results)]

\* perform_search(search_engine, query_text, max_results, similarity_threshold)
\* with an engine whose validate_search_readiness reports `ready` and whose
\* search ends as `outcome` ("return" with `results`, or "raise")
PerformSearch(query_text, max_results, similarity_threshold, ready, outcome, results) ==
    /\ webCall.seq < MaxWebOps
    /\ LET key == GenerateCacheKey(query_text, max_results, similarity_threshold)
           got == QueryCacheGet(queryCache, cacheStats, key, wallClock, cacheConfig.ttl)
           miss == AfterMiss(ready, outcome, results)
       IN /\ cacheStats' = got.stats
          /\ IF ~IsNone(got.value)
             THEN /\ queryCache' = got.cache
                  /\ webCall' = [WebCall("perform", key) EXCEPT !.value = got.value]
             ELSE /\ queryCache' = IF IsNone(miss.put) THEN got.cache
                                   ELSE QueryCachePut(got.cache, key, Val(miss.put),
                                                      wallClock, cacheConfig.max_size)
                  /\ webCall' = [WebCall("perform", key) EXCEPT
                                    !.value = IF miss.error THEN Some(<<>>) ELSE Some(results),
                                    !.error = miss.error,
                                    !.readinessAsked = miss.readinessAsked,
                                    !.searched = miss.searched]
    /\ UNCHANGED <<cacheConfig, wallClock>>
    /\ WebFrame

\* the wall clock moves on by d minutes
WallTick(d) ==
    /\ wallClock + d <= cacheConfig.ttl + MaxWall
    /\ wallClock' = wallClock + d
    /\ UNCHANGED <<queryCache, cacheStats, cacheConfig, webCall>>
    /\ WebFrame

\* the local time is set back by a minute (clock adjustment, end of DST)
WallBack ==
    /\ wallClock > 0
    /\ wallClock' = wallClock - 1
    /\ UNCHANGED <<queryCache, cacheStats, cacheConfig, webCall>>
    /\ WebFrame

\* ------------------------------------------------------------- SearchEngine
EmbeddingsOf(md) == [p \in DOMAIN md |-> md[p].embedding]

IdleLocal == [max_results |-> None, similarity_threshold |-> None,
              query_embedding |-> <<>>, after |-> "", metadata_dict |-> EmptyDict,
              image_embeddings |-> EmptyDict]
\* via names the statement that ended the call: "raise" (line 207),
\* "empty" (line 119) or "return" (line 186)
NoReturn == [thread |-> "", outcome |-> "none", via |-> "", results |-> <<>>,
             results_count |-> None, invalidInput |-> FALSE, embedCalled |-> FALSE,
             providerFailed |-> FALSE]
NoHist == [invalidInput |-> FALSE, providerFailed |-> FALSE, startStale |-> FALSE,
           loads |-> 0, fileAtLoad |-> Absent, loadFailed |-> FALSE]

\* Invalid input of search(): empty or whitespace-only text,
\* fewer than 2 characters after trimming, max_results <= 0, threshold
\* outside [0, 1].
InvalidInput(text, max_results, similarity_threshold) ==
    \/ Len(Strip(text)) < 2
    \/ ~IsNone(max_results) /\ Val(max_results) <= 0
    \/ ~IsNone(similarity_threshold)
         /\ (Val(similarity_threshold) < 0 \/ Val(similarity_threshold) > 1000)

\* _refresh_caches_if_needed, lines 244-252
NeedsRefresh ==
    \/ DOMAIN embeddingCache = {}
    \/ DOMAIN metadataCache = {}
    \/ IsNone(cacheTimestamp)
    \/ now - Val(cacheTimestamp) > CacheTTL

\* does a load of the engine's store, made now, hit a file it cannot load
LoadHitsCorruptFile ==
    /\ liveFile.exists
    /\ ~cacheLoaded["engine"] \/ lastModified["engine"] /= Some(liveFile.mtime)
    /\ ~LoadMetadataFromFile(liveFile).ok

\* ------------------------------------------------------ SearchEngine.search
\* lines 84-104: parameter checks, then QueryProcessor.process_query
\* (validation, then the Embedding Provider).  Every failure here reaches
\* the outer except of search: count the search, raise ValueError.
SearchBegin(t, text, max_results, similarity_threshold, provider) ==
    /\ pc[t] = "idle"
    /\ calls < MaxCalls
    /\ provider = "ok" => modelLoaded
    /\ calls' = calls + 1
    /\ LET paramsOk == SearchParamsOk(text, max_results, similarity_threshold)
           textOk == ValidateAndNormalizeOk(text)
           invalid == InvalidInput(text, max_results, similarity_threshold)
           failed == paramsOk /\ textOk /\ provider /= "ok"
       IN /\ IF paramsOk /\ ProcessQueryOk(text, provider)
             THEN /\ pc' = [pc EXCEPT ![t] = "refresh_check"]
                  /\ hist' = [hist EXCEPT ![t] = [NoHist EXCEPT !.invalidInput = invalid,
                                                                !.providerFailed = failed]]
                  /\ local' = [local EXCEPT ![t] =
                        [IdleLocal EXCEPT !.max_results = max_results,
                                          !.similarity_threshold = similarity_threshold,
                                          !.query_embedding = GenerateTextEmbedding(Strip(text))]]
                  /\ UNCHANGED <<searchCount, ret>>
             ELSE /\ searchCount' = searchCount + 1
                  /\ ret' = [thread |-> t, outcome |-> "error", via |-> "raise",
                             results |-> <<>>, results_count |-> None,
                             invalidInput |-> invalid,
                             embedCalled |-> (paramsOk /\ textOk),
                             providerFailed |-> failed]
                  /\ UNCHANGED <<pc, local, hist>>
    /\ UNCHANGED <<storeVars, envVars, embeddingCache, metadataCache,
                   cacheTimestamp, now, cacheHits, cacheMisses>>

\* line 108, _refresh_caches_if_needed: evaluate needs_refresh
RefreshCheck(t) ==
    /\ pc[t] = "refresh_check"
    /\ pc' = [pc EXCEPT ![t] = IF NeedsRefresh THEN "refresh_load" ELSE "get_embeddings"]
    /\ local' = [local EXCEPT ![t].after = "get_embeddings"]
    /\ hist' = [hist EXCEPT ![t].startStale = NeedsRefresh]
    /\ UNCHANGED <<storeVars, envVars, embeddingCache, metadataCache,
                   cacheTimestamp, now, searchCount, cacheHits, cacheMisses, ret, calls>>

\* _refresh_caches lines 263-274: load from the store, build the new maps
RefreshLoad(t) ==
    /\ pc[t] = "refresh_load"
    /\ LoadAllMetadata("engine")
    /\ local' = [local EXCEPT ![t].metadata_dict = storeCache'["engine"]]
    /\ pc' = [pc EXCEPT ![t] = "swap_embeddings"]
    /\ hist' = [hist EXCEPT ![t].loads = @ + 1,
                            ![t].fileAtLoad = liveFile,
                            ![t].loadFailed = @ \/ LoadHitsCorruptFile]
    /\ UNCHANGED <<liveFile, backupFile, tmpFile, mclock, wpc, wresult, savePrev,
                   readerView, envVars, embeddingCache, metadataCache, cacheTimestamp, now,
                   searchCount, cacheHits, cacheMisses, ret, calls>>

\* line 277: self._embedding_cache = embedding_cache
SwapEmbeddings(t) ==
    /\ pc[t] = "swap_embeddings"
    /\ embeddingCache' = EmbeddingsOf(local[t].metadata_dict)
    /\ pc' = [pc EXCEPT ![t] = "swap_metadata"]
    /\ UNCHANGED <<storeVars, envVars, metadataCache, cacheTimestamp, now,
                   searchCount, cacheHits, cacheMisses, local, ret, calls, hist>>

\* line 278: self._metadata_cache = metadata_cache
SwapMetadata(t) ==
    /\ pc[t] = "swap_metadata"
    /\ metadataCache' = local[t].metadata_dict
    /\ pc' = [pc EXCEPT ![t] = "swap_timestamp"]
    /\ UNCHANGED <<storeVars, envVars, embeddingCache, cacheTimestamp, now,
                   searchCount, cacheHits, cacheMisses, local, ret, calls, hist>>

\* line 279: self._cache_timestamp = datetime.now(); return to the caller
SwapTimestamp(t) ==
    /\ pc[t] = "swap_timestamp"
    /\ cacheTimestamp' = Some(now)
    /\ pc' = [pc EXCEPT ![t] = local[t].after]
    /\ UNCHANGED <<storeVars, envVars, embeddingCache, metadataCache, now,
                   searchCount, cacheHits, cacheMisses, local, ret, calls, hist>>

\* line 113, _get_cached_embeddings lines 295-301: a hit copies the map, a
\* miss starts another _refresh_caches
GetCachedEmbeddings(t) ==
    /\ pc[t] = "get_embeddings"
    /\ IF DOMAIN embeddingCache /= {}
       THEN /\ cacheHits' = cacheHits + 1
            /\ local' = [local EXCEPT ![t].image_embeddings = embeddingCache]
            /\ pc' = [pc EXCEPT ![t] = "score"]
            /\ UNCHANGED cacheMisses
       ELSE /\ cacheMisses' = cacheMisses + 1
            /\ local' = [local EXCEPT ![t].after = "copy_embeddings"]
            /\ pc' = [pc EXCEPT ![t] = "refresh_load"]
            /\ UNCHANGED cacheHits
    /\ UNCHANGED <<storeVars, envVars, embeddingCache, metadataCache,
                   cacheTimestamp, now, searchCount, ret, calls, hist>>

\* _get_cached_embeddings line 302: return self._embedding_cache.copy()
CopyEmbeddings(t) ==
    /\ pc[t] = "copy_embeddings"
    /\ local' = [local EXCEPT ![t].image_embeddings = embeddingCache]
    /\ pc' = [pc EXCEPT ![t] = "score"]
    /\ UNCHANGED <<storeVars, envVars, embeddingCache, metadataCache,
                   cacheTimestamp, now, searchCount, cacheHits, cacheMisses,
                   ret, calls, hist>>

\* lines 115-186: score the copied embeddings, join with self._metadata_cache
\* as it is now, filter, rank, validate, count, return
SearchFinish(t, strategy, diversity) ==
    /\ pc[t] = "score"
    /\ LET r == SearchTail(local[t].query_embedding, local[t].image_embeddings,
                           metadataCache, local[t].max_results,
                           local[t].similarity_threshold, strategy, diversity, imageFiles)
       IN /\ ret' = [thread |-> t, outcome |-> r.outcome, via |-> r.via,
                     results |-> r.results, results_count |-> r.results_count,
                     invalidInput |-> hist[t].invalidInput, embedCalled |-> TRUE,
                     providerFailed |-> hist[t].providerFailed]
          /\ searchCount' = IF r.counted THEN searchCount + 1 ELSE searchCount
    /\ pc' = [pc EXCEPT ![t] = "idle"]
    /\ local' = [local EXCEPT ![t] = IdleLocal]
    /\ hist' = [hist EXCEPT ![t] = NoHist]
    /\ UNCHANGED <<storeVars, envVars, embeddingCache, metadataCache,
                   cacheTimestamp, now, cacheHits, cacheMisses, calls>>

\* ------------------------------------------------ clear_caches, statistics
\* clear_caches line 466: self._embedding_cache.clear()
ClearEmbeddings(t) ==
    /\ pc[t] = "idle"
    /\ embeddingCache' = EmptyDict
    /\ pc' = [pc EXCEPT ![t] = "clear_metadata"]
    /\ UNCHANGED <<storeVars, envVars, metadataCache, cacheTimestamp, now,
                   searchCount, cacheHits, cacheMisses, local, ret, calls, hist>>

\* line 467: self._metadata_cache.clear()
ClearMetadata(t) ==
    /\ pc[t] = "clear_metadata"
    /\ metadataCache' = EmptyDict
    /\ pc' = [pc EXCEPT ![t] = "clear_timestamp"]
    /\ UNCHANGED <<storeVars, envVars, embeddingCache, cacheTimestamp, now,
                   searchCount, cacheHits, cacheMisses, local, ret, calls, hist>>

\* line 468: self._cache_timestamp = None
ClearTimestamp(t) ==
    /\ pc[t] = "clear_timestamp"
    /\ cacheTimestamp' = None
    /\ pc' = [pc EXCEPT ![t] = "idle"]
    /\ UNCHANGED <<storeVars, envVars, embeddingCache, metadataCache, now,
                   searchCount, cacheHits, cacheMisses, local, ret, calls, hist>>

\* reset_statistics
ResetStatistics(t) ==
    /\ pc[t] = "idle"
    /\ calls > 0
    /\ searchCount' = 0
    /\ cacheHits' = 0
    /\ cacheMisses' = 0
    /\ calls' = 0
    /\ UNCHANGED <<storeVars, envVars, embeddingCache, metadataCache,
                   cacheTimestamp, now, pc, local, ret, hist>>

\* ------------------------------------------------- validate_search_readiness
NoStatus == [done |-> FALSE, ready |-> TRUE, issues |-> {}]

\* variant of a failed check that adds the issue and leaves 'ready' as it is
CheckOutcome_KeepsReady(st, failed, issue) ==
    IF failed THEN [st EXCEPT !.issues = @ \cup {issue}] ELSE st

\* one check of validate_search_readiness: a failed check sets ready to
\* False and appends its issue (lines 426-428, 432-434, 438-440)
CheckOutcome(st, failed, issue) ==
    IF failed THEN [st EXCEPT !.ready = FALSE, !.issues = @ \cup {issue}] ELSE st

\* lines 417-434: a new status dict; the model check; get_storage_stats,
\* which refreshes the store's cache and counts its records
ReadinessBegin(t) ==
    /\ pc[t] = "idle"
    /\ LoadAllMetadata("engine")
    /\ status' = CheckOutcome(
                     CheckOutcome([NoStatus EXCEPT !.ready = TRUE],
                                  ~modelLoaded, "CLIP model not loaded"),
                     DOMAIN storeCache'["engine"] = {}, "No images in metadata store")
    /\ pc' = [pc EXCEPT ![t] = "readiness_check"]
    /\ UNCHANGED <<liveFile, backupFile, tmpFile, mclock, wpc, wresult, savePrev,
                   readerView, imageFiles, labVars, modelLoaded, indexVars, embeddingCache,
                   metadataCache, cacheTimestamp, now, searchCount, cacheHits,
                   cacheMisses, local, ret, calls, hist>>

\* line 437: self._refresh_caches_if_needed()
ReadinessCheck(t) ==
    /\ pc[t] = "readiness_check"
    /\ pc' = [pc EXCEPT ![t] = IF NeedsRefresh THEN "refresh_load" ELSE "readiness_finish"]
    /\ local' = [local EXCEPT ![t].after = "readiness_finish"]
    /\ UNCHANGED <<storeVars, envVars, embeddingCache, metadataCache,
                   cacheTimestamp, now, searchCount, cacheHits, cacheMisses, ret,
                   calls, hist>>

\* lines 438-462: the cache check, the statistics, return status
ReadinessFinish(t) ==
    /\ pc[t] = "readiness_finish"
    /\ status' = [CheckOutcome(status, DOMAIN embeddingCache = {}, "No embeddings in cache")
                     EXCEPT !.done = TRUE]
    /\ pc' = [pc EXCEPT ![t] = "idle"]
    /\ local' = [local EXCEPT ![t] = IdleLocal]
    /\ hist' = [hist EXCEPT ![t] = NoHist]
    /\ UNCHANGED <<storeVars, imageFiles, labVars, modelLoaded, indexVars, embeddingCache,
                   metadataCache, cacheTimestamp, now, searchCount, cacheHits,
                   cacheMisses, ret, calls>>

\* ------------------------------------- search_by_features, get_similar_images
\* line 319 and line 377: self._refresh_caches_if_needed() at the start of
\* search_by_features (next = "features_finish") and of get_similar_images
\* (next = "similar_finish")
LookupBegin(t, next) ==
    /\ pc[t] = "idle"
    /\ calls < MaxCalls
    /\ calls' = calls + 1
    /\ pc' = [pc EXCEPT ![t] = IF NeedsRefresh THEN "refresh_load" ELSE next]
    /\ local' = [local EXCEPT ![t].after = next]
    /\ UNCHANGED <<storeVars, envVars, embeddingCache, metadataCache,
                   cacheTimestamp, now, searchCount, cacheHits, cacheMisses, ret, hist>>

\* search_by_features lines 322-350: the records of the metadata cache that
\* match the features, in dict order, with confidence = similarity = the
\* share of the searched features they hold (1.0 under match_all)
RECURSIVE FeatureMatches(_, _, _, _)
FeatureMatches(order, metadata_cache, features, match_all) ==
    IF order = <<>> THEN <<>>
    ELSE LET p == Head(order)
             rest == FeatureMatches(Tail(order), metadata_cache, features, match_all)
         IN IF p \notin DOMAIN metadata_cache \/ metadata_cache[p].features = <<>> THEN rest
            ELSE LET md == metadata_cache[p]
                     held == {NormalizeFeature(md.features[i]) : i \in 1..Len(md.features)}
                     matches == SelectSeq(features, LAMBDA f : NormalizeFeature(f) \in held)
                     confidence == IF match_all THEN 1000
                                   ELSE (1000 * Len(matches)) \div Len(features)
                     r == [image_path |-> p, confidence_score |-> confidence,
                           description |-> md.description,
                           similarity_score |-> confidence, features |-> md.features]
                 IN IF match_all /\ Len(matches) = Len(features) THEN <<r>> \o rest
                    ELSE IF ~match_all /\ matches /= <<>> THEN <<r>> \o rest
                    ELSE rest

\* lines 322-362: match, rank by confidence and limit, return
FeaturesFinish(t, features, match_all, max_results) ==
    /\ pc[t] = "features_finish"
    /\ ret' = [NoReturn EXCEPT
                  !.thread = t, !.outcome = "ok", !.via = "features",
                  !.results = RankResults(
                      FeatureMatches(IdOrder, metadataCache, features, match_all),
                      max_results, "confidence")]
    /\ pc' = [pc EXCEPT ![t] = "idle"]
    /\ local' = [local EXCEPT ![t] = IdleLocal]
    /\ hist' = [hist EXCEPT ![t] = NoHist]
    /\ UNCHANGED <<storeVars, envVars, embeddingCache, metadataCache,
                   cacheTimestamp, now, searchCount, cacheHits, cacheMisses, calls>>

\* get_similar_images lines 380-401: no embedding of the reference image
\* gives []; otherwise score every (other) cached embedding against it on
\* the sequential path, create the results, rank by similarity and limit
SimilarFinish(t, image_path, max_results, exclude_self) ==
    /\ pc[t] = "similar_finish"
    /\ LET others == IF exclude_self THEN DOMAIN embeddingCache \ {image_path}
                     ELSE DOMAIN embeddingCache
           similarities == [p \in others |->
               CalculateCosineSimilarity(embeddingCache[image_path], embeddingCache[p])]
       IN ret' = [NoReturn EXCEPT
                     !.thread = t, !.outcome = "ok", !.via = "similar",
                     !.results = IF image_path \notin DOMAIN embeddingCache THEN <<>>
                                 ELSE RankResults(
                                          CreateSearchResults(similarities, metadataCache),
                                          max_results, "similarity")]
    /\ pc' = [pc EXCEPT ![t] = "idle"]
    /\ local' = [local EXCEPT ![t] = IdleLocal]
    /\ hist' = [hist EXCEPT ![t] = NoHist]
    /\ UNCHANGED <<storeVars, envVars, embeddingCache, metadataCache,
                   cacheTimestamp, now, searchCount, cacheHits, cacheMisses, calls>>

\* SearchEngine.cleanup, run while no other call is active: clear_caches,
\* then ModelManager.cleanup drops the model
Cleanup(t) ==
    /\ pc[t] = "idle"
    /\ modelLoaded
    /\ embeddingCache' = EmptyDict
    /\ metadataCache' = EmptyDict
    /\ cacheTimestamp' = None
    /\ modelLoaded' = FALSE
    /\ UNCHANGED <<storeVars, imageFiles, labVars, status, indexVars, now, searchCount,
                   cacheHits, cacheMisses, pc, local, ret, calls, hist>>

\* ------------------------------------------------------------- environment
\* the clock advances by exactly the TTL or by one minute more
Tick(d) ==
    /\ now + d <= MaxTime
    /\ now' = now + d
    /\ UNCHANGED <<storeVars, envVars, embeddingCache, metadataCache,
                   cacheTimestamp, searchCount, cacheHits, cacheMisses, pc, local,
                   ret, calls, hist>>

\* ----------------------------------------------------------- specification
\* After construction: the backing file is absent, holds one record or does
\* not parse; the indexer's store is fresh; the engine has run
\* _refresh_caches once (SearchEngine.__init__ line 61).
InitialFiles == {Absent, File(JsonDoc([p \in {"a"} |-> ImageMetadata(p)]), 0),
                 File(BadJson, 0)}

\* what load_all_metadata returns to a freshly constructed store
InitialDict(f) == IF LoadMetadataFromFile(f).ok THEN LoadMetadataFromFile(f).dict ELSE EmptyDict

InitFrom(files) ==
    /\ liveFile \in files
    /\ backupFile = Absent
    /\ tmpFile = Absent
    /\ mclock = 1
    /\ imageFiles = Ids
    /\ storeCache = [s \in Stores |-> IF s = "engine"
                                      THEN InitialDict(liveFile)
                                      ELSE EmptyDict]
    /\ cacheLoaded = [s \in Stores |->
                        s = "engine" /\ liveFile.exists /\ LoadMetadataFromFile(liveFile).ok]
    /\ lastModified = [s \in Stores |->
                         IF s = "engine" /\ liveFile.exists /\ LoadMetadataFromFile(liveFile).ok
                         THEN Some(liveFile.mtime) ELSE None]
    /\ wpc = "idle"
    /\ wresult = "none"
    /\ savePrev = Absent
    /\ readerView = [called |-> FALSE, file |-> Absent, result |-> EmptyDict,
                     raised |-> FALSE, inSave |-> FALSE, old |-> Absent,
                     new |-> EmptyDict]
    /\ embeddingCache = EmbeddingsOf(InitialDict(liveFile))
    /\ metadataCache = InitialDict(liveFile)
    /\ cacheTimestamp = Some(0)
    /\ now = 0
    /\ searchCount = 0
    /\ cacheHits = 0
    /\ cacheMisses = 0
    /\ pc = [t \in Threads |-> "idle"]
    /\ local = [t \in Threads |-> IdleLocal]
    /\ ret = NoReturn
    /\ calls = 0
    /\ hist = [t \in Threads |-> NoHist]

InitCore == InitFrom(InitialFiles)

\* the vectors tried on the scoring paths: unit vectors, one of norm 5, the
\* zero vector, a non-finite one, one of another length
SimVectors == {<<1, 0>>, <<-1, 0>>, <<0, 1>>, <<3, 4>>, <<0, 0>>, <<NaN, 0>>, <<1, 0, 0>>}
SimQueries == {<<1, 0>>, <<0, 1>>, <<0, 0>>, <<NaN, 0>>, <<>>}
SimCandidateMaps == UNION {[S -> SimVectors] : S \in SUBSET Ids}

\* the sources as the indexing run left them: every source has size 1 and
\* mtime 1, and the records of the initial file were made from them at time 1
InitWebIdle ==
    /\ queryCache = <<>>
    /\ cacheStats = NoStats
    /\ cacheConfig = [max_size |-> QueryCacheMaxSize, ttl |-> QueryCacheTTL]
    /\ wallClock = 0
    /\ webCall = NoWebCall

InitRankIdle ==
    /\ rankInput = NoRankInput
    /\ rankOutput = NotRanked
    /\ tailInput = NoRankInput
    /\ tailOutput = NotRanked
    /\ InitWebIdle

InitIndexVars ==
    /\ imageStat = [p \in Ids |-> Stat(1, 1)]
    /\ srcClock = 1
    /\ seen = [p \in Ids |-> IF p \in DOMAIN InitialDict(liveFile)
                              THEN Some(Seen(Stat(1, 1), ImageMetadata(p))) ELSE None]
    /\ preRestoreFile = Absent
    /\ opResult = NoOp

Init ==
    /\ modelLoaded = TRUE
    /\ status = NoStatus
    /\ simQuery = <<1, 0>>
    /\ simCandidates = EmptyDict
    /\ simVectorized = NotScored
    /\ simSequential = NotScored
    /\ InitCore
    /\ InitIndexVars
    /\ InitRankIdle

\* the scoring paths of the QueryProcessor applied to one input
InitSim ==
    /\ modelLoaded = TRUE
    /\ status = NoStatus
    /\ simQuery \in SimQueries
    /\ simCandidates \in SimCandidateMaps
    /\ simVectorized = NotScored
    /\ simSequential = NotScored
    /\ InitCore
    /\ liveFile = Absent
    /\ InitIndexVars
    /\ InitRankIdle
NextSim == ScoreVectorized \/ ScoreSequential
SpecSim == InitSim /\ [][NextSim]_vars

Texts == {<<>>, <<" ">>, <<"x">>, <<" ", "x", " ">>, <<"g", "l">>}
\* the argument triples tried: all valid, or exactly one argument invalid
GoodText == <<"g", "l">>
SearchInputs ==
    {<<GoodText, None, None>>, <<GoodText, Some(1), Some(0)>>}
    \cup ((Texts \ {GoodText}) \X {None, Some(1)} \X {None})
    \cup ({GoodText} \X {Some(0), Some(-1)} \X {None, Some(0)})
    \cup ({GoodText} \X {None} \X {Some(1001), Some(-1)})
Strategies == {"confidence", "similarity", "hybrid", "bogus"}

IndexerStep ==
    \/ \E p \in Ids : SaveMetadata(p)
    \/ \E p \in Ids : RemoveMetadata(p)
    \/ SaveBackup
    \/ \E how \in {"ok", "serialise", "partial"} : SaveWrite(how)
    \/ SaveRename
    \/ SaveExcept

\* the steps of search()
SearchStep(t) ==
    \/ \E in \in SearchInputs, provider \in {"ok", "fail"} :
          SearchBegin(t, in[1], in[2], in[3], provider)
    \/ RefreshCheck(t)
    \/ RefreshLoad(t)
    \/ SwapEmbeddings(t)
    \/ SwapMetadata(t)
    \/ SwapTimestamp(t)
    \/ GetCachedEmbeddings(t)
    \/ CopyEmbeddings(t)
    \/ \E strategy \in Strategies, diversity \in BOOLEAN : SearchFinish(t, strategy, diversity)

\* the steps of clear_caches()
ClearStep(t) ==
    \/ ClearEmbeddings(t)
    \/ ClearMetadata(t)
    \/ ClearTimestamp(t)

EngineStep(t) == SearchStep(t) \/ ClearStep(t) \/ ResetStatistics(t)

EnvStep ==
    \/ \E d \in {BadJson, NoImagesKey} : CorruptFile(d)
    \/ \E d \in {CacheTTL, CacheTTL + 1} : Tick(d)

\* the store alone: the indexer writes, a reader loads
NextStore ==
    \/ IndexerStep
    \/ ReaderLoad
    \/ \E d \in {BadJson, NoImagesKey} : CorruptFile(d)
SpecStore == Init /\ [][NextStore]_vars

\* sequential use: one engine thread; engine calls, store operations of the
\* indexer and changes of the environment do not overlap
NextSeq ==
    \/ pc["t1"] = "idle" /\ IndexerStep
    \/ wpc = "idle" /\ EngineStep("t1")
    \/ pc["t1"] = "idle" /\ wpc = "idle" /\ EnvStep
SpecSeq == Init /\ [][NextSeq]_vars

\* one engine thread and the environment, no indexer
NextEngine == EngineStep("t1") \/ EnvStep
SpecEngine == Init /\ [][NextEngine]_vars

\* one engine thread that also asks for readiness and may clean up
ReadinessStep(t) == ReadinessBegin(t) \/ ReadinessCheck(t) \/ ReadinessFinish(t)
NextReady == EngineStep("t1") \/ ReadinessStep("t1") \/ Cleanup("t1") \/ EnvStep
SpecReady == Init /\ [][NextReady]_vars

\* every entry point of the engine that reads or clears the caches, called
\* by one thread, over a store file that may turn corrupt
SearchedFeatures == {<<>>, <<"Glass ">>, <<"glass", "brick">>}
LookupStep(t) ==
    \/ \E next \in {"features_finish", "similar_finish"} : LookupBegin(t, next)
    \/ \E features \in SearchedFeatures, match_all \in BOOLEAN, max_results \in {None, Some(1)} :
          FeaturesFinish(t, features, match_all, max_results)
    \/ \E image_path \in Ids, max_results \in {None, Some(1)}, exclude_self \in BOOLEAN :
          SimilarFinish(t, image_path, max_results, exclude_self)
NextCache ==
    \/ SearchStep("t1")
    \/ ClearStep("t1")
    \/ LookupStep("t1")
    \/ ReadinessStep("t1")
    \/ EnvStep
SpecCache == Init /\ [][NextCache]_vars

\* the engine shared by the threads of the web sessions
\* the indexer's store operations over changing sources; the store starts
\* empty, with one record or with two
IndexFiles == {Absent, File(JsonDoc([p \in {"a"} |-> ImageMetadata(p)]), 0),
               File(JsonDoc([p \in Ids |-> ImageMetadata(p)]), 0)}
\* the files handed to restore_from_backup: none, one that does not parse,
\* one without 'images', a backup of this store, one of another schema version
BackupFiles ==
    {Absent, File(BadJson, 0), File(NoImagesKey, 0),
     File(JsonDoc([p \in {"b"} |-> ImageMetadata(p)]), 0),
     File([JsonDoc([p \in {"b"} |-> ImageMetadata(p)]) EXCEPT !.version = "2.0"], 0)}
InitIndex ==
    /\ modelLoaded = TRUE
    /\ status = NoStatus
    /\ simQuery = <<1, 0>>
    /\ simCandidates = EmptyDict
    /\ simVectorized = NotScored
    /\ simSequential = NotScored
    /\ InitFrom(IndexFiles)
    /\ InitIndexVars
    /\ InitRankIdle
SavePipeline ==
    \/ SaveBackup
    \/ \E how \in {"ok", "serialise", "partial"} : SaveWrite(how)
    \/ SaveRename
    \/ SaveExcept
\* upserts of single records and get_images_needing_processing while source
\* a is touched or rewritten and time passes; source b is left alone
StaleOp ==
    \/ \E p \in Ids : SaveBatchMetadata({p}, FALSE)
    \/ \E dir \in Directories : GetImagesNeedingProcessing(dir)
    \/ Return
TouchStep ==
    \/ \E size \in Sizes, mtime \in 0..MaxStamp : ModifySource("a", size, mtime)
    \/ AdvanceClock
NextStale == StaleOp \/ SavePipeline \/ TouchStep
SpecStale == InitIndex /\ [][NextStale]_vars

\* batches and orphan cleanup while sources are deleted
IndexOp ==
    \/ \E B \in SUBSET Ids, float64 \in BOOLEAN : SaveBatchMetadata(B, float64)
    \/ \E dir \in Directories : CleanupOrphanedMetadata(dir)
    \/ Return
NextIndex == IndexOp \/ SavePipeline \/ \E p \in Ids : RemoveSource(p)
SpecIndex == InitIndex /\ [][NextIndex]_vars

\* restores from every kind of backup file, between upserts
RestoreOp ==
    \/ \E b \in BackupFiles, how \in {"ok", "move", "copy"} : RestoreFromBackup(b, how)
    \/ \E p \in Ids : SaveBatchMetadata({p}, FALSE)
    \/ Return
NextRestore == RestoreOp \/ SavePipeline
SpecRestore == InitIndex /\ [][NextRestore]_vars

\* the functions of the ResultRanker, each applied to one input.  Results
\* are told apart by their path, which names their place in the input.
PlacePath == <<"r1", "r2", "r3", "r4">>
SeqsUpTo(S, n) == UNION {[1..k -> S] : k \in 0..n}
\* feature lists: none, one tag, tags that need normalising, overlapping sets
FeatureLists ==
    {<<>>, <<"glass">>, <<"Glass ", "steel">>, <<"glass", " STEEL", "brick">>, <<"brick">>}
DiversityThresholds == {-100, 0, 500, 800, 1000}
\* ranked input of the diversity filter: confidence falls with the place
DiversityResults(fs) ==
    [i \in 1..Len(fs) |->
        [image_path |-> PlacePath[i], confidence_score |-> 1000 - 250 * (i - 1),
         description |-> "building", similarity_score |-> 1000 - 500 * (i - 1),
         features |-> fs[i]]]
DiversityInputs ==
    {[op |-> "diversity", results |-> DiversityResults(fs), t |-> t] :
        fs \in SeqsUpTo(FeatureLists, MaxLen), t \in DiversityThresholds}
\* (confidence, similarity) of the items handed to rank_results: equal keys,
\* and pairs that the three strategies order differently
ScorePairs == {<<0, -1000>>, <<250, 0>>, <<250, 1000>>, <<1000, 0>>}
RankedResults(ps) ==
    [i \in 1..Len(ps) |->
        [image_path |-> PlacePath[i], confidence_score |-> ps[i][1],
         description |-> "building", similarity_score |-> ps[i][2],
         features |-> <<"glass">>]]
Limits == {None, Some(-1), Some(0), Some(1), Some(2)}
RankInputs ==
    {[op |-> "rank", results |-> RankedResults(ps), limit |-> l, strategy |-> st] :
        ps \in SeqsUpTo(ScorePairs, MaxLen), l \in Limits, st \in Strategies}
\* similarity scores in and out of [-1, 1], and the float that is no number
ScoreInputs == {-3000, -2000, -1000, -750, -500, -250, 0, 250, 500, 750, 1000, 2000, NaN}
ConfidenceInputs ==
    {[op |-> "confidence", s1 |-> s1, s2 |-> s2] : s1 \in ScoreInputs, s2 \in ScoreInputs}
InitRank ==
    /\ modelLoaded = TRUE
    /\ status = NoStatus
    /\ simQuery = <<1, 0>>
    /\ simCandidates = EmptyDict
    /\ simVectorized = NotScored
    /\ simSequential = NotScored
    /\ InitCore
    /\ liveFile = Absent
    /\ InitIndexVars
    /\ rankInput \in DiversityInputs \cup RankInputs \cup ConfidenceInputs
    /\ rankOutput = NotRanked
    /\ tailInput = NoRankInput
    /\ tailOutput = NotRanked
    /\ InitWebIdle
NextRank == RunDiversityFilter \/ RunRankResults \/ RunConfidenceScore
SpecRank == InitRank /\ [][NextRank]_vars

\* search() on one cache snapshot.  The records of a snapshot: "a" has the
\* tag glass or a blank description, "b" a differently spelled glass tag or
\* a tag that is no string, "c" the tag brick; each stands in any direction
\* to the query vector <<1, 0>> (similarity 1.0, 0.0 or -1.0).
TailPaths == {PathOrder[i] : i \in 1..Len(PathOrder)}
TailEmbeddings == {<<1, 0>>, <<0, 1>>, <<-1, 0>>}
TailRecord(p, e, d, f) ==
    [ImageMetadata(p) EXCEPT !.embedding = e, !.description = d, !.features = f]
TailRecords(p) ==
    CASE p = "a" -> {TailRecord(p, e, "building", <<"glass">>) : e \in TailEmbeddings}
                        \cup {TailRecord(p, <<1, 0>>, " ", <<"glass">>)}
      [] p = "b" -> {TailRecord(p, e, "building", <<"Glass ">>) : e \in TailEmbeddings}
                        \cup {TailRecord(p, <<0, 1>>, "building", <<NotAString>>)}
      [] OTHER -> {TailRecord(p, e, "building", <<"brick">>) : e \in TailEmbeddings}
TailCaches ==
    UNION {{m \in [D -> UNION {TailRecords(p) : p \in TailPaths}] :
               \A p \in D : m[p] \in TailRecords(p)} : D \in SUBSET TailPaths}
TailInputs ==
    {[op |-> "search", query_embedding |-> GenerateTextEmbedding(GoodText),
      image_embeddings |-> EmbeddingsOf(m), metadata_cache |-> m,
      max_results |-> mr, similarity_threshold |-> th, ranking_strategy |-> st,
      apply_diversity_filter |-> dv, images |-> im] :
        m \in TailCaches, mr \in {None, Some(1), Some(2)},
        th \in {None, Some(0), Some(500)}, st \in Strategies, dv \in BOOLEAN,
        im \in {TailPaths, TailPaths \ {"c"}}}
InitTail ==
    /\ modelLoaded = TRUE
    /\ status = NoStatus
    /\ simQuery = <<1, 0>>
    /\ simCandidates = EmptyDict
    /\ simVectorized = NotScored
    /\ simSequential = NotScored
    /\ InitCore
    /\ liveFile = Absent
    /\ InitIndexVars
    /\ rankInput = NoRankInput
    /\ rankOutput = NotRanked
    /\ tailInput \in TailInputs
    /\ tailOutput = NotRanked
    /\ InitWebIdle
NextTail == RunSearchTail
SpecTail == InitTail /\ [][NextTail]_vars

\* the web layer of one session.  The queries: two spellings of one text,
\* another text, another limit.
WebQueries == {<<"glass", 5, 100>>, <<"Glass ", 5, 100>>, <<"brick", 5, 100>>, <<"glass", 1, 100>>}
WebResults == {<<>>, <<"a">>}
InitWeb(configs) ==
    /\ modelLoaded = TRUE
    /\ status = NoStatus
    /\ simQuery = <<1, 0>>
    /\ simCandidates = EmptyDict
    /\ simVectorized = NotScored
    /\ simSequential = NotScored
    /\ InitCore
    /\ liveFile = Absent
    /\ InitIndexVars
    /\ rankInput = NoRankInput
    /\ rankOutput = NotRanked
    /\ tailInput = NoRankInput
    /\ tailOutput = NotRanked
    /\ queryCache = <<>>
    /\ cacheStats = NoStats
    /\ cacheConfig \in configs
    /\ wallClock = 0
    /\ webCall = NoWebCall
\* a QueryCache of one or two entries and a TTL of two minutes, called directly
SmallCaches == {[max_size |-> n, ttl |-> 2] : n \in {1, 2}}
NextQueryCache ==
    \/ \E q \in WebQueries : Get(q[1], q[2], q[3])
    \/ \E q \in WebQueries, results \in WebResults : Put(q[1], results, q[2], q[3])
    \/ Clear
    \/ \E d \in {1, cacheConfig.ttl} : WallTick(d)
    \/ WallBack
SpecQueryCache == InitWeb(SmallCaches) /\ [][NextQueryCache]_vars
\* perform_search with the QueryCache() it constructs; between the calls
\* the clock moves on by exactly the TTL or by a minute more
NextWeb ==
    \/ \E q \in WebQueries, ready \in BOOLEAN, outcome \in {"return", "raise"}, results \in WebResults :
          PerformSearch(q[1], q[2], q[3], ready, outcome, results)
    \/ \E d \in {cacheConfig.ttl, cacheConfig.ttl + 1} : WallTick(d)
SpecWeb == InitWeb({[max_size |-> QueryCacheMaxSize, ttl |-> QueryCacheTTL]}) /\ [][NextWeb]_vars

Next == \E t \in Threads : SearchStep(t) \/ ClearStep(t)
Spec == Init /\ [][Next]_vars

\* ================================================================== claims
RefreshPcs == {"refresh_load", "swap_embeddings", "swap_metadata", "swap_timestamp"}
AllIdle == \A t \in Threads : pc[t] = "idle"
\* the step in which thread t leaves search() through lines 115-186
Finishes(t) == pc[t] = "score" /\ pc'[t] = "idle"
\* the records a load of file f yields when f can be loaded
ContentOf(f) == LoadMetadataFromFile(f).dict

\* C1: when a save has failed (the except handler of _save_metadata_to_file
\* is reached) and a loadable live file was committed before the save began,
\* that file is still present under its live name with its previous content.
C1_FailedSaveKeepsLiveFile ==
    (wpc = "except" /\ savePrev.exists /\ LoadMetadataFromFile(savePrev).ok)
    => liveFile = savePrev

\* C2: a load_all_metadata made while the writer is inside a save of a store
\* that had a loadable live file returns the complete old record set or the
\* complete new one.
C2_ReaderSeesOldOrNew ==
    (readerView.called /\ readerView.inSave /\ readerView.old.exists
       /\ LoadMetadataFromFile(readerView.old).ok)
    => readerView.result \in {ContentOf(readerView.old), readerView.new}

\* C3: load_all_metadata returns an empty map when the backing file is absent
\* and raises when the file is present but unparsable or structurally invalid.
C3_CorruptStoreIsReported ==
    readerView.called =>
        /\ ~readerView.file.exists =>
              (~readerView.raised /\ readerView.result = EmptyDict)
        /\ (readerView.file.exists /\ ~LoadMetadataFromFile(readerView.file).ok) =>
              readerView.raised

\* C4: whenever no call is running, the total-searches counter equals the
\* number of search() calls made since the last reset_statistics.
C4_EverySearchCountedOnce ==
    AllIdle => searchCount = calls

\* C5: the metadata map a search joins its scores with is the snapshot its
\* scored embeddings were copied from.
C5_SearchUsesOneSnapshot ==
    [][\A t \in Threads :
          (Finishes(t) /\ DOMAIN local[t].image_embeddings /= {})
          => EmbeddingsOf(metadataCache) = local[t].image_embeddings]_vars

\* C6: at most one thread is inside _refresh_caches at any time.
C6_AtMostOneRefresh ==
    Cardinality({t \in Threads : pc[t] \in RefreshPcs}) <= 1

\* C7: a search that found the cache cleared or expired scores the records
\* the store file held when the search reloaded the cache.
C7_StaleCacheReloadedBeforeScoring ==
    [][\A t \in Threads :
          (Finishes(t) /\ hist[t].startStale)
          => /\ hist[t].loads >= 1
             /\ LoadMetadataFromFile(hist[t].fileAtLoad).ok
             /\ local[t].image_embeddings = EmbeddingsOf(ContentOf(hist[t].fileAtLoad))]_vars

\* the step in which thread t begins a search() with invalid input
BeganInvalid(t) ==
    /\ pc[t] = "idle"
    /\ calls' = calls + 1
    /\ \/ pc'[t] = "refresh_check" /\ hist'[t].invalidInput
       \/ pc'[t] = "idle" /\ ret'.thread = t /\ ret'.invalidInput

\* C8: a search() begun with invalid input ends in that same step with an
\* error: the caches, the cache timestamp, the hit/miss counters and the
\* store are unchanged, and the Embedding Provider was not called.
C8_InvalidInputFailsFast ==
    [][\A t \in Threads :
          BeganInvalid(t)
          => /\ pc'[t] = "idle"
             /\ ret'.outcome = "error"
             /\ ~ret'.embedCalled
             /\ UNCHANGED <<embeddingCache, metadataCache, cacheTimestamp,
                            cacheHits, cacheMisses, storeVars>>]_vars
C8_Witness ==
    ret.outcome = "error" /\ ret.invalidInput /\ ~ret.embedCalled /\ AllIdle

\* the running search of thread t reloaded the cache from a store without records
StoreEmptyAtLoad(t) ==
    /\ hist[t].loads >= 1
    /\ LoadMetadataFromFile(hist[t].fileAtLoad).ok
    /\ DOMAIN ContentOf(hist[t].fileAtLoad) = {}

\* C9: a valid search whose provider works and which finds the cache empty
\* after the refresh, or whose reload found the store empty, returns an empty
\* list with results_count = 0 and does not raise.
C9_EmptyCacheGivesEmptyResult ==
    [][\A t \in Threads :
          (Finishes(t) /\ ~hist[t].invalidInput
             /\ (DOMAIN local[t].image_embeddings = {} \/ StoreEmptyAtLoad(t)))
          => /\ ret'.thread = t
             /\ ret'.outcome = "ok"
             /\ ret'.results = <<>>
             /\ ret'.results_count = Some(0)]_vars
C9_Witness ==
    /\ ret.outcome = "ok" /\ ret.via = "empty"
    /\ ret.results = <<>> /\ ret.results_count = Some(0)
    /\ ~liveFile.exists
    /\ AllIdle

\* C10: a search that returns an empty list without raising had no failing
\* step: no load of the store file failed during the call.
C10_NoSilentEmptyOnFailure ==
    [][\A t \in Threads :
          (Finishes(t) /\ ret'.outcome = "ok" /\ ret'.results = <<>>)
          => ~hist[t].loadFailed]_vars

\* the step in which thread t begins a valid search() and the provider fails
BeganWithProviderFailure(t) ==
    /\ pc[t] = "idle"
    /\ calls' = calls + 1
    /\ \/ pc'[t] = "refresh_check" /\ hist'[t].providerFailed
       \/ pc'[t] = "idle" /\ ret'.thread = t /\ ret'.providerFailed

\* C11: when the Embedding Provider fails on the query, search() ends with an
\* error and no result list, whatever the caches hold, and the caches are not
\* consulted or changed.
C11_ProviderFailureFailsSearch ==
    [][\A t \in Threads :
          BeganWithProviderFailure(t)
          => /\ pc'[t] = "idle"
             /\ ret'.outcome = "error"
             /\ ret'.results = <<>>
             /\ ret'.results_count = None
             /\ UNCHANGED <<embeddingCache, metadataCache, cacheTimestamp,
                            cacheHits, cacheMisses>>]_vars
C11_Witness ==
    /\ ret.outcome = "error" /\ ret.providerFailed /\ ~ret.invalidInput
    /\ DOMAIN embeddingCache /= {}
    /\ AllIdle

\* the results of the scoring paths that have run on (simQuery, simCandidates)
SimResults == {r \in {simVectorized, simSequential} : r.done}
SameShape(p) == Len(simCandidates[p]) = Len(simQuery)
WellFormed(v) == IsFinite(v) /\ Norm(v) /= 0

C13_PathsAgree ==
    (simVectorized.done /\ simSequential.done)
    => /\ simVectorized.ok = simSequential.ok
       /\ DOMAIN simVectorized.map = DOMAIN simSequential.map
       /\ \A p \in DOMAIN simVectorized.map \cap DOMAIN simSequential.map :
             simVectorized.map[p] = simSequential.map[p]

\* C14: on both scoring paths a zero-norm candidate of the query's length is
\* reported with score 0, and every reported score lies in [-1, 1] (is not NaN).
C14_ZeroNormScoresZero ==
    \A r \in SimResults :
       WellFormed(simQuery) =>
          \A p \in DOMAIN simCandidates :
             /\ (SameShape(p) /\ IsFinite(simCandidates[p]) /\ Norm(simCandidates[p]) = 0)
                   => (p \in DOMAIN r.map /\ r.map[p] = 0)
             /\ p \in DOMAIN r.map => (r.map[p] >= -1000 /\ r.map[p] <= 1000)

\* the step in which validate_search_readiness returns to thread t
ReadinessReturns(t) == pc[t] = "readiness_finish" /\ pc'[t] = "idle"

\* C20: validate_search_readiness reports ready exactly when the model is
\* loaded, the store holds at least one record and the embedding cache is
\* non-empty after the refresh check; issues is empty exactly when ready.
C20_ReadyIffAllChecksPass ==
    [][\A t \in Threads :
          ReadinessReturns(t)
          => /\ status'.done
             /\ status'.ready <=> (/\ modelLoaded
                                   /\ DOMAIN storeCache["engine"] /= {}
                                   /\ DOMAIN embeddingCache /= {})
             /\ (status'.issues = {}) <=> status'.ready]_vars
C20_Witness ==
    /\ status.done /\ status.ready /\ status.issues = {}
    /\ modelLoaded /\ DOMAIN embeddingCache /= {}
    /\ AllIdle

\* the record the store holds for p is the one last made of p
HoldsRecordOf(p) ==
    /\ p \in DOMAIN storeCache["indexer"]
    /\ ~IsNone(seen[p])
    /\ storeCache["indexer"][p] = Val(seen[p]).record

\* C15: get_images_needing_processing returns a source exactly when it has
\* no record in the store or its size or modification time is not the one
\* its record was made from: a matching record keeps it out, and a touch
\* to any other time, earlier or later, brings it back.
C15_StaleIffMissingOrChanged ==
    opResult.op = "stale" =>
        /\ opResult.ids \subseteq {p \in imageFiles : DirOf(p) = opResult.dir}
        /\ \A p \in imageFiles :
              DirOf(p) = opResult.dir =>
                 /\ p \notin DOMAIN storeCache["indexer"] => p \in opResult.ids
                 /\ HoldsRecordOf(p) =>
                       (p \in opResult.ids <=> Val(seen[p]).stat /= imageStat[p])

\* what cleanup_orphaned_metadata met and what it was to keep of it
CleanupReturned == opResult.op = "cleanup" /\ wpc = "idle" /\ wresult = "ok"
Surviving ==
    [p \in {q \in DOMAIN opResult.prior : q \in imageFiles /\ DirOf(q) = opResult.dir} |->
        opResult.prior[p]]

\* C16: when cleanup_orphaned_metadata(dir) has returned, the store's cache
\* and the persisted file both hold exactly the prior records whose source
\* still exists under dir, each unchanged, and the returned count is the
\* number of records deleted.
C16_CleanupKeepsExactlyExisting ==
    CleanupReturned =>
        /\ storeCache["indexer"] = Surviving
        /\ LoadMetadataFromFile(liveFile).ok
        /\ LoadMetadataFromFile(liveFile).dict = Surviving
        /\ opResult.count = Cardinality(DOMAIN opResult.prior) - Cardinality(DOMAIN Surviving)

\* save_batch_metadata has returned without raising
BatchReturned == opResult.op = "batch" /\ wpc = "idle" /\ wresult = "ok"
\* the records of a map as a load of their saved form gives them back
AsLoaded(md) == [p \in DOMAIN md |-> FromDict(ToDict(md[p]))]

\* C17: when save_batch_metadata(records) has returned, the backing file was
\* written exactly once during the call, whatever the size of the batch;
\* every path of the batch maps to the batch's record and every other
\* record of the snapshot the call met is unchanged, in the cache and in
\* the file.
C17_BatchMergedInOneWrite ==
    BatchReturned =>
        /\ mclock - opResult.clock0 = 1
        /\ DOMAIN storeCache["indexer"] = DOMAIN opResult.prior \cup DOMAIN opResult.batch
        /\ \A p \in DOMAIN opResult.batch : storeCache["indexer"][p] = opResult.batch[p]
        /\ \A p \in DOMAIN opResult.prior \ DOMAIN opResult.batch :
              storeCache["indexer"][p] = opResult.prior[p]
        /\ LoadMetadataFromFile(liveFile).ok
        /\ LoadMetadataFromFile(liveFile).dict = AsLoaded(storeCache["indexer"])

\* _save_metadata_to_file(R) has been run by the last operation and returned;
\* R is the store's cache
Saved == /\ opResult.op \in {"batch", "cleanup"}
         /\ wpc = "idle" /\ wresult = "ok"
         /\ mclock > opResult.clock0
\* record m read back: every field as it was, the vector within float32 rounding
ReadBack(m, l) ==
    /\ l.path = m.path
    /\ l.description = m.description
    /\ l.features = m.features
    /\ l.file_size = m.file_size
    /\ l.processed_date = m.processed_date
    /\ l.embedding = AsFloat32(m.embedding)
    /\ AsFloat32(m.embedding) = m.embedding => l = m
\* what was saved is what a load of the file before the call gave
SavedWhatWasLoaded ==
    /\ Saved
    /\ LoadMetadataFromFile(opResult.file0).ok
    /\ storeCache["indexer"] = LoadMetadataFromFile(opResult.file0).dict

\* C18: a load of the file that a save of R wrote gives a map equal to R:
\* the same paths, each with R's description, features and vector (the
\* vector within float32 rounding, which leaves a float32 vector as it is);
\* and saving what a load returned leaves the stored records as they were.
C18_PersistenceRoundTrips ==
    /\ Saved =>
          /\ LoadMetadataFromFile(liveFile).ok
          /\ DOMAIN LoadMetadataFromFile(liveFile).dict = DOMAIN storeCache["indexer"]
          /\ \A p \in DOMAIN storeCache["indexer"] :
                ReadBack(storeCache["indexer"][p], LoadMetadataFromFile(liveFile).dict[p])
    /\ SavedWhatWasLoaded =>
          LoadMetadataFromFile(liveFile).dict = LoadMetadataFromFile(opResult.file0).dict
C18_Witness ==
    /\ SavedWhatWasLoaded
    /\ DOMAIN storeCache["indexer"] = Ids
    /\ liveFile /= opResult.file0

\* a backup the store may take in: it parses, has 'images', and carries the
\* version tag this store writes
ValidBackup(b) == b.exists /\ b.data.kind = "json" /\ b.data.version = JsonDoc(EmptyDict).version

\* C19: restore_from_backup validates before it swaps: given a backup that
\* is missing, does not parse, lacks 'images' or carries another schema
\* version, it raises and the backup is not the live file afterwards.
C19_InvalidBackupRejected ==
    (opResult.op = "restore" /\ ~ValidBackup(opResult.backup)) =>
        /\ opResult.raised
        /\ ~(opResult.backup.exists /\ opResult.file1 = opResult.backup)

\* the tag set of a result, tags compared in their normal form, and the
\* Jaccard similarity of two tag sets (0 when both are empty) against t
TagSet(r) == {NormalizeFeature(r.features[i]) : i \in 1..Len(r.features)}
JaccardOver(r1, r2, t) ==
    IF TagSet(r1) \cup TagSet(r2) = {} THEN 0 > t
    ELSE 1000 * Cardinality(TagSet(r1) \cap TagSet(r2)) > t * Cardinality(TagSet(r1) \cup TagSet(r2))
\* place in the input of the k-th item of the output
PlaceOf(r) == CHOOSE i \in 1..Len(PlacePath) : PlacePath[i] = r.image_path
DiversityDone == rankInput.op = "diversity" /\ rankOutput.done /\ rankInput.results /= <<>>

\* C21: apply_diversity_filter(results, t) on a non-empty ranked list
\* returns a subsequence in input order that starts with the first item;
\* no two kept items have a tag-set Jaccard similarity above t, and every
\* dropped item has one above t with a kept item ranked before it.
C21_DiversityGreedySubsequence ==
    DiversityDone =>
        LET in == rankInput.results
            out == rankOutput.value
            t == rankInput.t
            kept == {PlaceOf(out[k]) : k \in 1..Len(out)}
        IN /\ Len(out) >= 1 /\ out[1] = in[1]
           /\ \A k \in 1..Len(out) : out[k] = in[PlaceOf(out[k])]
           /\ \A j, k \in 1..Len(out) : j < k => PlaceOf(out[j]) < PlaceOf(out[k])
           /\ \A j, k \in 1..Len(out) : j /= k => ~JaccardOver(out[j], out[k], t)
           /\ \A i \in (1..Len(in)) \ kept :
                 \E j \in kept : j < i /\ JaccardOver(in[i], in[j], t)
C21_Witness ==
    /\ DiversityDone
    /\ Len(rankInput.results) = 3
    /\ Len(rankOutput.value) = 2
    /\ rankOutput.value[2] = rankInput.results[3]
    /\ rankInput.t = 500

RankDone == rankInput.op = "rank" /\ rankOutput.done
NamedStrategy == rankInput.strategy \in {"confidence", "similarity", "hybrid"}
\* the key of the strategy, times 20 for hybrid
StrategyKey(r) ==
    IF rankInput.strategy = "confidence" THEN r.confidence_score
    ELSE IF rankInput.strategy = "similarity" THEN r.similarity_score
    ELSE 14 * r.confidence_score + 3 * (r.similarity_score + 1000)
\* x comes before y in the ranking: larger key, or equal key and earlier place
RanksBefore(x, y) ==
    \/ StrategyKey(x) > StrategyKey(y)
    \/ StrategyKey(x) = StrategyKey(y) /\ PlaceOf(x) < PlaceOf(y)
EffectiveLimit ==
    IF IsNone(rankInput.limit) THEN DefaultMaxResults ELSE Val(rankInput.limit)
\* C22: rank_results returns the input items in non-increasing order of the
\* strategy key, items with equal keys in input order, cut to the first
\* `limit` items when limit > 0 and uncut when limit <= 0; an empty input
\* gives an empty output
C22_RankStableDescendingCut ==
    (RankDone /\ NamedStrategy) =>
        LET in == rankInput.results
            out == rankOutput.value
            kept == {PlaceOf(out[i]) : i \in 1..Len(out)}
        IN /\ \A i \in 1..Len(out) :
                  PlaceOf(out[i]) \in 1..Len(in) /\ out[i] = in[PlaceOf(out[i])]
           /\ \A i, j \in 1..Len(out) : i < j => RanksBefore(out[i], out[j])
           /\ \A p \in (1..Len(in)) \ kept :
                  \A i \in 1..Len(out) : RanksBefore(out[i], in[p])
           /\ Len(out) = IF EffectiveLimit > 0 /\ EffectiveLimit < Len(in)
                          THEN EffectiveLimit ELSE Len(in)
C22_Witness ==
    /\ RankDone
    /\ rankInput.strategy = "hybrid"
    /\ rankInput.limit = Some(2)
    /\ Len(rankInput.results) = 3
    /\ Len(rankOutput.value) = 2
    /\ StrategyKey(rankOutput.value[1]) = StrategyKey(rankOutput.value[2])
    /\ rankOutput.value[1] /= rankInput.results[1]

ConfidenceDone == rankInput.op = "confidence" /\ rankOutput.done
\* ((s + 1) / 2) ^ 2 clamped to [0, 1], in thousandths
SquaredHalf(s) ==
    LET sq == (((s + 1000) \div 2) * ((s + 1000) \div 2)) \div 1000
    IN IF sq < 0 THEN 0 ELSE IF sq > 1000 THEN 1000 ELSE sq
InUnitInterval(c) == c /= NaN /\ 0 <= c /\ c <= 1000
\* C23: _calculate_confidence_score(s) is ((s+1)/2)^2 clamped to [0,1]: in
\* [0,1] for every input, non-decreasing on [-1,1], with value 0 at -1,
\* 0.25 at 0 and 1 at 1
C23_ConfidenceBoundedMonotone ==
    ConfidenceDone =>
        LET s1 == rankInput.s1
            s2 == rankInput.s2
            c1 == rankOutput.value.c1
            c2 == rankOutput.value.c2
        IN /\ InUnitInterval(c1)
           /\ s1 /= NaN => c1 = SquaredHalf(s1)
           /\ (s1 /= NaN /\ s2 /= NaN /\ -1000 <= s1 /\ s1 < s2 /\ s2 <= 1000) => c1 <= c2
           /\ s1 = -1000 => c1 = 0
           /\ s1 = 0 => c1 = 250
           /\ s1 = 1000 => c1 = 1000

\* what a load of the store can return: the content of a file the store held
LoadableContents == {InitialDict(f) : f \in InitialFiles}
\* both maps empty, or both the content of one load of the store
CachesOfOneLoad ==
    \/ DOMAIN embeddingCache = {} /\ DOMAIN metadataCache = {}
    \/ /\ DOMAIN embeddingCache = DOMAIN metadataCache
       /\ metadataCache \in LoadableContents
       /\ embeddingCache = EmbeddingsOf(metadataCache)
\* thread t is inside a refresh whose load of the store failed
InFailedRefresh(t) ==
    /\ pc[t] \in {"swap_embeddings", "swap_metadata", "swap_timestamp"}
    /\ hist[t].loadFailed
\* C24: between the calls of one thread (search, search_by_features,
\* get_similar_images, validate_search_readiness, clear_caches) the two
\* cache maps have the same keys and are both empty or both the content of
\* one store load; a refresh that fails leaves both maps and the refresh
\* timestamp as they were
C24_CachesOfOneLoadOrUntouched ==
    [][/\ AllIdle' => CachesOfOneLoad'
       /\ \A t \in Threads :
             InFailedRefresh(t) =>
                 UNCHANGED <<embeddingCache, metadataCache, cacheTimestamp>>]_vars

\* one search() on a snapshot has returned
TailDone == tailInput.op = "search" /\ tailOutput.done
TailResults == tailOutput.value.results
TailReturnedPaths == {TailResults[i].image_path : i \in 1..Len(TailResults)}
\* similarity and confidence of the record at path p of the snapshot
TailScore(p) == Cosine(tailInput.query_embedding, tailInput.metadata_cache[p].embedding)
TailConfidence(p) == SquaredHalf(TailScore(p))
TailThreshold ==
    IF IsNone(tailInput.similarity_threshold) THEN DefaultSimilarityThreshold
    ELSE Val(tailInput.similarity_threshold)
TailLimit ==
    IF IsNone(tailInput.max_results) THEN DefaultMaxResults ELSE Val(tailInput.max_results)
TailPassing == {p \in DOMAIN tailInput.metadata_cache : TailScore(p) >= TailThreshold}
TailKey(p) ==
    IF tailInput.ranking_strategy = "similarity" THEN TailScore(p)
    ELSE IF tailInput.ranking_strategy = "hybrid"
         THEN 14 * TailConfidence(p) + 3 * (TailScore(p) + 1000)
         ELSE TailConfidence(p)
DictPlace(p) == CHOOSE i \in 1..Len(PathOrder) : PathOrder[i] = p
\* p is ranked before x: larger key, or equal key and earlier in the dict
TailBefore(p, x) ==
    \/ TailKey(p) > TailKey(x)
    \/ TailKey(p) = TailKey(x) /\ DictPlace(p) < DictPlace(x)
\* the first maxResults of the threshold-passing items in ranking order
TailTop ==
    {p \in TailPassing : Cardinality({x \in TailPassing : TailBefore(x, p)}) < TailLimit}
TailValid(p) ==
    /\ p \in tailInput.images
    /\ tailInput.metadata_cache[p].description \notin {"", " "}
TailScores == {TailScore(p) : p \in DOMAIN tailInput.metadata_cache}
\* C25: one search() scores all candidates, then filters by threshold, then
\* ranks and limits, then applies the diversity filter if requested: the
\* limit is taken from the threshold-passing items, the diversity filter
\* works on the ranked list, and similarities 1.0, 0.0, -1.0 with
\* minSimilarity = 0 give exactly [A, B]
C25_ThresholdThenRankThenDiversity ==
    TailDone =>
        /\ \A p \in TailReturnedPaths : p \in TailTop /\ TailValid(p)
        /\ \A i, j \in 1..Len(TailResults) :
              i < j => TailBefore(TailResults[i].image_path, TailResults[j].image_path)
        /\ ~tailInput.apply_diversity_filter =>
              TailReturnedPaths = {p \in TailTop : TailValid(p)}
        /\ \A p \in TailTop :
              (TailValid(p) /\ \A x \in TailTop \ {p} : TailBefore(p, x)) =>
                  (TailResults /= <<>> /\ TailResults[1].image_path = p)
        /\ ( /\ Cardinality(DOMAIN tailInput.metadata_cache) = 3
             /\ TailScores = {1000, 0, -1000}
             /\ tailInput.similarity_threshold = Some(0)
             /\ TailLimit >= 2
             /\ ~tailInput.apply_diversity_filter
             /\ \A p \in DOMAIN tailInput.metadata_cache : TailValid(p) )
           => /\ Len(TailResults) = 2
              /\ TailScore(TailResults[1].image_path) = 1000
              /\ TailScore(TailResults[2].image_path) = 0
C25_Witness ==
    /\ TailDone
    /\ Cardinality(DOMAIN tailInput.metadata_cache) = 3
    /\ TailScores = {1000, 0, -1000}
    /\ tailInput.similarity_threshold = Some(0)
    /\ tailInput.max_results = Some(2)
    /\ ~tailInput.apply_diversity_filter
    /\ Len(TailResults) = 2
    /\ TailResults[1].image_path = "c"
    /\ TailResults[2].image_path = "a"

\* a result that passes the checks named by the claim
WithinBounds(r) ==
    /\ r.description \notin {"", " "}
    /\ r.confidence_score /= NaN /\ 0 <= r.confidence_score /\ r.confidence_score <= 1000
    /\ r.similarity_score /= NaN /\ -1000 <= r.similarity_score /\ r.similarity_score <= 1000
\* C26: every result search() returns has a non-empty description, a
\* confidence in [0,1] and a similarity in [-1,1]; a result that fails a
\* check is left out without failing the call, and results_count is the
\* length of the returned list
C26_ReturnedResultsValidAndCounted ==
    TailDone =>
        /\ tailOutput.value.outcome = "ok"
        /\ \A i \in 1..Len(TailResults) : WithinBounds(TailResults[i])
        /\ tailOutput.value.results_count = Some(Len(TailResults))
        /\ ~tailInput.apply_diversity_filter =>
              \A p \in TailTop : TailValid(p) => p \in TailReturnedPaths
C26_Witness ==
    /\ TailDone
    /\ "a" \in TailTop
    /\ tailInput.metadata_cache["a"].description = " "
    /\ "a" \notin TailReturnedPaths
    /\ Len(TailResults) = 1
    /\ tailOutput.value.results_count = Some(1)
    /\ tailOutput.value.outcome = "ok"

\* the ranking step failed: the strategy name is not one rank_results knows
RankingFailed == tailInput.ranking_strategy \notin {"confidence", "similarity", "hybrid"}
\* the diversity step failed: it was requested and met, among at least two
\* ranked items, the record whose tag is no string
DiversityFailed ==
    /\ tailInput.apply_diversity_filter
    /\ Cardinality(TailTop) >= 2
    /\ \E p \in TailTop : tailInput.metadata_cache[p].features = <<NotAString>>
\* p is before x by confidence: larger confidence, or equal and earlier in the dict
ConfidenceBefore(p, x) ==
    \/ TailConfidence(p) > TailConfidence(x)
    \/ TailConfidence(p) = TailConfidence(x) /\ DictPlace(p) < DictPlace(x)
ConfidenceTop ==
    {p \in TailPassing :
        Cardinality({x \in TailPassing : ConfidenceBefore(x, p)}) < TailLimit}
\* C27: when the ranking step fails (unknown strategy name) or the
\* diversity step fails, search() does not raise and returns the
\* threshold-passing results by descending confidence, limited to maxResults
C27_DegradedRankingByConfidence ==
    (TailDone /\ (RankingFailed \/ DiversityFailed)) =>
        /\ tailOutput.value.outcome = "ok"
        /\ TailReturnedPaths \subseteq ConfidenceTop
        /\ Len(TailResults) <= TailLimit
        /\ \A i, j \in 1..Len(TailResults) :
              i < j => /\ TailResults[i].image_path /= TailResults[j].image_path
                       /\ TailConfidence(TailResults[i].image_path)
                              >= TailConfidence(TailResults[j].image_path)
        /\ (DiversityFailed \/ ~tailInput.apply_diversity_filter) =>
              TailReturnedPaths = {p \in ConfidenceTop : TailValid(p)}
C27_Witness ==
    /\ TailDone
    /\ RankingFailed
    /\ DiversityFailed
    /\ Len(TailResults) = 2
    /\ TailResults[1].image_path = "c"
    /\ TailResults[2].image_path = "b"

\* restore_from_backup has raised on a store that had a live file
RestoreRaised == opResult.op = "restore" /\ opResult.raised /\ opResult.file0.exists
\* C28: when restore_from_backup raises (backup missing, unparsable,
\* structurally invalid, or the copy fails) the live store file still
\* exists under its name with the content it had before the call
C28_FailedRestoreKeepsLiveFile ==
    RestoreRaised =>
        /\ opResult.file1.exists
        /\ opResult.file1 = opResult.file0
        /\ liveFile = opResult.file0

\* the last call was perform_search; its key had an entry no older than the
\* TTL when the call began
PerformDone == webCall.op = "perform"
FreshBefore ==
    /\ webCall.key \in CachedKeys(webCall.before)
    /\ webCall.now - EntryOf(webCall.before, webCall.key).timestamp <= cacheConfig.ttl
\* C29: perform_search puts an entry into the QueryCache only after
\* search_engine.search returned without error: a call that ends in an
\* error leaves no entry for its key, so the next identical query goes to
\* the engine again, and a call answered from a non-expired entry does not
\* invoke the engine
C29_OnlySuccessfulSearchesCached ==
    [][/\ PerformDone' =>
             /\ webCall'.error => webCall'.key \notin CachedKeys(queryCache')
             /\ FreshBefore' =>
                   /\ ~webCall'.readinessAsked /\ ~webCall'.searched /\ ~webCall'.error
                   /\ webCall'.value = Some(EntryOf(webCall'.before, webCall'.key).results)
                   /\ queryCache' = webCall'.before
             /\ ~FreshBefore' => webCall'.readinessAsked
             /\ (webCall'.key \in CachedKeys(queryCache') /\ ~FreshBefore') =>
                   /\ webCall'.searched /\ ~webCall'.error
                   /\ EntryOf(queryCache', webCall'.key).results = Val(webCall'.value)
       /\ ( /\ PerformDone /\ webCall.error
            /\ webCall'.seq = webCall.seq + 1 /\ webCall'.key = webCall.key )
          => webCall'.readinessAsked]_vars
C29_Witness ==
    /\ PerformDone
    /\ webCall.seq = 3
    /\ webCall.error
    /\ webCall.searched
    /\ webCall.key \in CachedKeys(webCall.before)
    /\ webCall.key \notin CachedKeys(queryCache)
    /\ Len(queryCache) = 1

\* the smallest timestamp among the entries the cache held before the call
OldestBefore ==
    CHOOSE ts \in {webCall.before[i].timestamp : i \in 1..Len(webCall.before)} :
        \A i \in 1..Len(webCall.before) : ts <= webCall.before[i].timestamp
\* C30: with max_size >= 1 the QueryCache never holds more than max_size
\* entries; a put on a full cache first removes the entry with the oldest
\* timestamp; get returns no entry older than the TTL: an expired entry is
\* deleted and counted as a miss
C30_QueryCacheBoundedAndFresh ==
    /\ Len(queryCache) <= cacheConfig.max_size
    /\ (webCall.op = "put" /\ Len(webCall.before) >= cacheConfig.max_size) =>
          \E i \in 1..Len(webCall.before) :
              /\ webCall.before[i].timestamp = OldestBefore
              /\ \/ webCall.before[i].key \notin CachedKeys(queryCache)
                 \/ webCall.before[i].key = webCall.key
    /\ (webCall.op = "get" /\ webCall.key \in CachedKeys(webCall.before)) =>
          IF webCall.now - EntryOf(webCall.before, webCall.key).timestamp > cacheConfig.ttl
          THEN /\ IsNone(webCall.value)
               /\ webCall.key \notin CachedKeys(queryCache)
               /\ cacheStats.misses >= 1
          ELSE webCall.value = Some(EntryOf(webCall.before, webCall.key).results)

====
